---- MODULE Spec2Model ----
(***************************************************************************)
(* Gesture state machine of the shape creator (handleHandResults and the   *)
(* helpers it calls), in the two builds of the repository:                  *)
(*   "part000"  src/unnamed/part_000 (the build with offline fallbacks)     *)
(*   "main"     src/main.js                                                 *)
(*                                                                         *)
(* Number representation (exact integer arithmetic):                        *)
(*   - normalized landmark coordinates are integers in units of 1/200, so   *)
(*     0.06 is 12, 0.12 is 24 and 0.5 is 100;                               *)
(*   - world coordinates are integers in units of 1/20, so get3DCoords,     *)
(*     (norm - 0.5) * 10, is norm - 100, and the radius 1.5 is 30;          *)
(*   - a scale factor is a reduced fraction <<num, den>>;                   *)
(*   - Math.hypot is the exact integer square root; the landmark sets below *)
(*     are chosen so that every distance the code stores is an integer and  *)
(*     every midpoint is integral;                                          *)
(*   - floating point rounding is not modelled.                             *)
(***************************************************************************)
EXTENDS Integers, Sequences, FiniteSets, TLC

VARIABLES
    version,                \* which build is loaded: "part000" or "main"
    isApplicationRunning,
    shapes,                 \* the registry: a sequence of shape handles
    objs,                   \* the THREE.Group behind each handle
    currentShape,
    isPinching,
    originalDistance,
    selectedShape,
    shapeCreatedThisPinch,
    lastShapeCreationTime,
    binActive,              \* recycleBinElement.classList contains 'active'
    window,                 \* window.innerWidth / window.innerHeight
    camera,                 \* camera.aspect as a reduced fraction <<w, h>>
    now,                    \* the wall clock read by Date.now()
    event,                  \* the event the event loop dispatched last: what
                            \* it was, the tracking results of a frame, the
                            \* data of a mouse event
    sessionCreated,         \* history: shapes added by handleHandResults in the
                            \* current run of two-hand pinch frames
    initPhase,              \* how far the initialization chain has come
    listeners,              \* the window event listeners that are registered
    rafAnimate,             \* requestAnimationFrame(animate) is pending
    effects,                \* opacities of the feedback meshes in the scene
    rendered,               \* history: the last event called renderer.render
    removed,                \* history: the handles the last event took out of
                            \* the registry
    offlineControls,        \* how many times enableOfflineMode has installed
                            \* the click handlers of the manual controls
    mouseControls,          \* the closures made by setupMouseControls, each
                            \* with its isDragging and selectedViaMouseShape
    scenario,               \* history: how far the frames delivered so far
                            \* have followed the create / scale / drag /
                            \* recycle scenario
    refused,                \* history: the two-hand pinch that is going on
                            \* (isPinching) began with a frame that created
                            \* nothing
    call,                   \* the helper function called last, with its
                            \* arguments
    returned,               \* what that call returned
    handsInit,              \* how far initMediaPipeHands has come
    handsInitialized,
    windowHands,            \* window.hands: "none", "primary" or "fallback"
    cameraInit,             \* how far initCamera has come
    streamCall,             \* the call of setupCameraStream (1: preferred
                            \* stream, 2: basic stream) that set
                            \* video.srcObject and video.onloadedmetadata
                            \* last; 0: none yet
    metadataLoaded,         \* loadedmetadata has fired for video.srcObject
    timedOut,               \* the calls of setupCameraStream whose promise
                            \* the metadata timeout has rejected
    frameLoops,             \* Camera instances that have been started
    onFrame,                \* where the frame callback of the Camera is
    frameErrorCount,        \* window.frameErrorCount
    failedInRow             \* history: submissions to the tracker that have
                            \* failed since the last one that succeeded

vars == <<version, isApplicationRunning, shapes, objs, currentShape, isPinching,
          originalDistance, selectedShape, shapeCreatedThisPinch,
          lastShapeCreationTime, binActive, window, camera, now, event,
          sessionCreated, initPhase, listeners, rafAnimate, effects, rendered,
          removed, offlineControls, mouseControls, scenario, refused, call,
          returned, handsInit, handsInitialized, windowHands, cameraInit,
          streamCall, metadataLoaded, timedOut, frameLoops, onFrame,
          frameErrorCount, failedInRow>>

\* the variables of initMediaPipeHands, of initCamera and of the frame
\* callback
handsVars == <<handsInit, handsInitialized, windowHands>>
cameraVars == <<cameraInit, streamCall, metadataLoaded, timedOut, frameLoops>>
frameVars == <<onFrame, frameErrorCount, failedInRow>>
bootVars == <<handsVars, cameraVars, frameVars>>

-----------------------------------------------------------------------------
(* Bounds of the model *)

\* handles that can be alive at the same time
MaxShapes == 2

\* the wall clock at page load (any Date.now() is far above the cooldown)
StartTime == 5000

\* the clock stops advancing here
MaxTime == 6001

\* calls of enableOfflineMode (each installs the handlers once more)
MaxControls == 2

\* the wheel scales a shape while numerator and denominator of the scale stay
\* at or below this
MaxScaleTerm == 100

-----------------------------------------------------------------------------
(* Program constants *)

shapeCreationCooldown == 1000
\* 0.06 in units of 1/200
PinchThreshold == 12
\* 0.12 in units of 1/200
CloseThreshold == 24
\* 1.5 in units of 1/20
NearestRadius == 30
\* 0.5 in units of 1/200
NormHalf == 100
\* landmarks.length of a complete hand
LandmarkCount == 21
\* recycle bin rectangle, in pixels
binWidth == 160
binHeight == 160
binInset == 60
\* camera.position.z, in world units
CameraZ == 5
\* tan(75 degrees / 2) = 0.7673 (to four digits), as TanNum / TanDen
TanNum == 7673
TanDen == 10000
\* world units per model unit: 1 / 20
WorldDen == 20

\* feedbackMaterial.opacity starts at 0.8 and loses 0.05 per step: in units of
\* 1/20 it starts at 16 and loses 1
StartOpacity == 16

\* currentShape = null, selectedShape = null
NullShape == 0
\* originalDistance = null (0 is a distance, and falsy as well)
NullDistance == 0 - 1

Ids == 1..MaxShapes

-----------------------------------------------------------------------------
(* Arithmetic helpers *)

RECURSIVE GCD(_, _)
GCD(a, b) == IF b = 0 THEN a ELSE GCD(b, a % b)

\* the fraction n / d in lowest terms (d > 0, n >= 0)
Ratio(n, d) == LET g == GCD(n, d) IN <<n \div g, d \div g>>

\* exact square root; the inputs of the model only produce perfect squares
Sqrt(n) == CHOOSE r \in 0..n : r * r = n

SumSq2(a, b) == (a[1] - b[1]) * (a[1] - b[1]) + (a[2] - b[2]) * (a[2] - b[2])
SumSq3(a, b) == SumSq2(a, b) + (a[3] - b[3]) * (a[3] - b[3])

RECURSIVE SeqRemove(_, _)
\* shapes.filter(s => s !== x)
SeqRemove(s, x) ==
    IF s = <<>> THEN <<>>
    ELSE IF Head(s) = x THEN SeqRemove(Tail(s), x)
         ELSE <<Head(s)>> \o SeqRemove(Tail(s), x)

Range(s) == {s[i] : i \in DOMAIN s}

-----------------------------------------------------------------------------
(* Tracking results: the argument of handleHandResults *)

\* an absent landmark (landmarks[i] undefined); never read as a point
NoPoint == <<0, 0, 0>>

\* a hand of the hand list: present = FALSE is a null entry; len is
\* landmarks.length; has4 / has8 say whether landmarks[4] / landmarks[8] exist
MkHand(len, p4, p8) ==
    [present |-> TRUE, len |-> len, has4 |-> TRUE, lm4 |-> p4, has8 |-> TRUE, lm8 |-> p8]

NullHand ==
    [present |-> FALSE, len |-> 0, has4 |-> FALSE, lm4 |-> NoPoint,
     has8 |-> FALSE, lm8 |-> NoPoint]

\* index tip at <<x, y>>, thumb tip at distance 10 (0.05): a pinch
PinchAt(x, y) == MkHand(LandmarkCount, <<x + 6, y, 8>>, <<x, y, 0>>)
\* thumb tip at distance 40 (0.2): an open hand
OpenAt(x, y) == MkHand(LandmarkCount, <<x + 40, y, 0>>, <<x, y, 0>>)
\* a pinching hand of which only 20 landmarks were delivered
ShortPinchAt(x, y) == MkHand(LandmarkCount - 1, <<x + 6, y, 8>>, <<x, y, 0>>)
\* a complete list of 21 entries whose entry 8 is missing
NoIndexHand ==
    [present |-> TRUE, len |-> LandmarkCount, has4 |-> TRUE, lm4 |-> <<116, 100, 8>>,
     has8 |-> FALSE, lm8 |-> NoPoint]

\* results.multiHandLandmarks = hands; hasList = FALSE: the field is absent
Results(hands) == [hasList |-> TRUE, hands |-> hands]
NoList == [hasList |-> FALSE, hands |-> <<>>]

\* index tip positions of single hands: M is the midpoint of every two-hand
\* frame below, A is 10 (0.5 world units) from M, R is exactly 30 (1.5 world
\* units) from M and 20 from A, B lies over the recycle bin
TipM == <<110, 100>>
TipA == <<120, 100>>
TipR == <<140, 100>>
TipB == <<10, 150>>
SingleTips == {TipM, TipA, TipR, TipB}

\* half the distance between the index tips of a two-hand pinch:
\* 0 (tips coincide), 10 (distance 20 = 0.10, close), 15 (distance 30 = 0.15)
HalfGaps == {0, 10, 15}

TwoPinch(h) == <<PinchAt(TipM[1] - h, TipM[2]), PinchAt(TipM[1] + h, TipM[2])>>

OneHandFrames ==
    {Results(<<PinchAt(t[1], t[2])>>) : t \in SingleTips}
        \cup {Results(<<OpenAt(TipM[1], TipM[2])>>),
              Results(<<NoIndexHand>>),
              Results(<<ShortPinchAt(TipM[1], TipM[2])>>)}

TwoHandFrames ==
    {Results(TwoPinch(h)) : h \in HalfGaps}
        \cup {Results(<<PinchAt(TipB[1], TipB[2]), OpenAt(TipM[1], TipM[2])>>),
              Results(<<ShortPinchAt(100, 100), PinchAt(120, 100)>>),
              Results(<<NullHand, PinchAt(120, 100)>>),
              Results(<<NoIndexHand, NoIndexHand>>)}

Frames == {NoList, Results(<<>>)} \cup OneHandFrames \cup TwoHandFrames

-----------------------------------------------------------------------------
(* Shapes *)

\* a handle that refers to no object (never created, or garbage collected)
FreeObj == [live |-> FALSE, position |-> <<0, 0, 0>>, scale |-> <<1, 1>>, wire |-> "white"]

\* the program state handleHandResults reads and writes, as one record;
\* full is set when a creation found no free handle (the model's bound)
State ==
    [shapes |-> shapes, objs |-> objs, currentShape |-> currentShape,
     isPinching |-> isPinching, originalDistance |-> originalDistance,
     selectedShape |-> selectedShape,
     shapeCreatedThisPinch |-> shapeCreatedThisPinch,
     lastShapeCreationTime |-> lastShapeCreationTime,
     binActive |-> binActive, window |-> window, camera |-> camera,
     isApplicationRunning |-> isApplicationRunning, effects |-> effects,
     full |-> FALSE]

FreeIds(s) == {i \in Ids : ~s.objs[i].live}

\* one call of expandAndFade on a mesh of the given opacity: the opacity it
\* is left with; the callback is scheduled again iff that is above 0, else the
\* mesh leaves the scene
\* mutant: the mesh grows and never fades
expandAndFadeNoFade(opacity) == opacity

expandAndFade(opacity) == opacity - 1

\* the feedback meshes are kept by opacity: meshes of equal opacity fade
\* together and are kept once.  The mesh is added with opacity 0.8 and
\* expandAndFade runs once at once.
createFeedbackEffect(s) ==
    [s EXCEPT !.effects = @ \cup ({expandAndFade(StartOpacity)} \ {0})]

\* mutant: the new shape is put in front of the registry (unshift)
createRandomShapeInFront(s, position) ==
    IF FreeIds(s) = {} THEN [st |-> [s EXCEPT !.full = TRUE], created |-> NullShape]
    ELSE LET id == CHOOSE i \in FreeIds(s) : \A j \in FreeIds(s) : i <= j
             s1 == createFeedbackEffect(s)
         IN [st |-> [s1 EXCEPT !.objs[id] = [live |-> TRUE, position |-> position,
                                             scale |-> <<1, 1>>, wire |-> "white"],
                               !.shapes = <<id>> \o @],
             created |-> id]

\* const group = new THREE.Group(); ... group.position.copy(position);
\* createFeedbackEffect(position); shapes.push(group); return group
\* (the handle is the field created)
createRandomShape(s, position) ==
    IF FreeIds(s) = {} THEN [st |-> [s EXCEPT !.full = TRUE], created |-> NullShape]
    ELSE LET id == CHOOSE i \in FreeIds(s) : \A j \in FreeIds(s) : i <= j
             s1 == createFeedbackEffect(s)
         IN [st |-> [s1 EXCEPT !.objs[id] = [live |-> TRUE, position |-> position,
                                             scale |-> <<1, 1>>, wire |-> "white"],
                               !.shapes = Append(@, id)],
             created |-> id]

get3DCoords(normX, normY) == <<normX - NormHalf, NormHalf - normY, 0>>

\* mutant: a thumb-index distance of exactly 0.06 counts as a pinch
isPinchAtThreshold(landmarks) ==
    IF ~landmarks.present \/ ~landmarks.has4 \/ ~landmarks.has8 THEN FALSE
    ELSE SumSq3(landmarks.lm4, landmarks.lm8) <= PinchThreshold * PinchThreshold

isPinch(landmarks) ==
    IF ~landmarks.present \/ ~landmarks.has4 \/ ~landmarks.has8 THEN FALSE
    ELSE SumSq3(landmarks.lm4, landmarks.lm8) < PinchThreshold * PinchThreshold

\* mutant: the depth of the index tips counts
areIndexFingersClose3D(l, r) ==
    IF ~l.present \/ ~r.present \/ ~l.has8 \/ ~r.has8 THEN FALSE
    ELSE SumSq3(l.lm8, r.lm8) < CloseThreshold * CloseThreshold

areIndexFingersClose(l, r) ==
    IF ~l.present \/ ~r.present \/ ~l.has8 \/ ~r.has8 THEN FALSE
    ELSE SumSq2(l.lm8, r.lm8) < CloseThreshold * CloseThreshold

RECURSIVE NearestFrom(_, _, _, _, _)
\* the forEach of findNearestShape: minDist is kept squared, -1 is Infinity
NearestFrom(s, rest, position, minDistSq, closest) ==
    IF rest = <<>> THEN closest
    ELSE LET shape == Head(rest)
             distSq == SumSq3(s.objs[shape].position, position)
         IN IF distSq < NearestRadius * NearestRadius
                /\ (minDistSq < 0 \/ distSq < minDistSq)
            THEN NearestFrom(s, Tail(rest), position, distSq, shape)
            ELSE NearestFrom(s, Tail(rest), position, minDistSq, closest)

RECURSIVE FirstWithin(_, _, _)
\* mutant: the first shape within the radius, not the nearest
FirstWithin(s, rest, position) ==
    IF rest = <<>> THEN NullShape
    ELSE IF SumSq3(s.objs[Head(rest)].position, position) < NearestRadius * NearestRadius
         THEN Head(rest)
         ELSE FirstWithin(s, Tail(rest), position)

findFirstShapeWithin(s, position) == FirstWithin(s, s.shapes, position)

RECURSIVE NearestFromLastWins(_, _, _, _, _)
\* mutant: of shapes at equal distance the one inserted last wins
NearestFromLastWins(s, rest, position, minDistSq, closest) ==
    IF rest = <<>> THEN closest
    ELSE LET shape == Head(rest)
             distSq == SumSq3(s.objs[shape].position, position)
         IN IF distSq < NearestRadius * NearestRadius
                /\ (minDistSq < 0 \/ distSq <= minDistSq)
            THEN NearestFromLastWins(s, Tail(rest), position, distSq, shape)
            ELSE NearestFromLastWins(s, Tail(rest), position, minDistSq, closest)

findNearestShapeLastWins(s, position) ==
    NearestFromLastWins(s, s.shapes, position, 0 - 1, NullShape)

findNearestShape(s, position) == NearestFrom(s, s.shapes, position, 0 - 1, NullShape)

\* mutant: a point on the edge of the rectangle is outside
isInRecycleBinZoneStrict(s, position) ==
    LET W == s.window.innerWidth
        H == s.window.innerHeight
        p == Ratio(TanDen, WorldDen * CameraZ * TanNum)
        vxNum == position[1] * p[1] * s.camera.aspect[2]
        vxDen == p[2] * s.camera.aspect[1]
        vyNum == position[2] * p[1]
        vyDen == p[2]
        adjustedX == W * 2 * vxDen - (vxNum + vxDen) * W
        screenY == (vyDen - vyNum) * H
    IN  /\ adjustedX > (W - binInset - binWidth) * 2 * vxDen
        /\ adjustedX < (W - binInset) * 2 * vxDen
        /\ screenY > (H - binInset - binHeight) * 2 * vyDen
        /\ screenY < (H - binInset) * 2 * vyDen

\* position.clone().project(camera), mapped to pixels and compared with the
\* bin rectangle.  With camera at z = CameraZ looking at the plane z = 0:
\*   vector.x = x / (CameraZ * tan * aspect),  vector.y = y / (CameraZ * tan).
\* Every quantity is multiplied by the positive factor Kx (resp. Ky) to stay
\* in the integers; fractions are reduced first to keep the products small.
isInRecycleBinZone(s, position) ==
    LET W == s.window.innerWidth
        H == s.window.innerHeight
        aw == s.camera.aspect[1]
        ah == s.camera.aspect[2]
        \* 1 / (CameraZ * tan), per model unit of length, as pn / pd
        p == Ratio(TanDen, WorldDen * CameraZ * TanNum)
        pn == p[1]
        pd == p[2]
        \* vector.x = vxNum / vxDen, vector.y = vyNum / vyDen
        vxNum == position[1] * pn * ah
        vxDen == pd * aw
        vyNum == position[2] * pn
        vyDen == pd
        Kx == 2 * vxDen
        Ky == 2 * vyDen
        screenX == (vxNum + vxDen) * W           \* times Kx
        screenY == (vyDen - vyNum) * H           \* times Ky
        binLeft == W - binInset - binWidth
        binTop == H - binInset - binHeight
        binRight == binLeft + binWidth
        binBottom == binTop + binHeight
        adjustedX == W * Kx - screenX            \* times Kx
    IN  /\ adjustedX >= binLeft * Kx
        /\ adjustedX <= binRight * Kx
        /\ screenY >= binTop * Ky
        /\ screenY <= binBottom * Ky

-----------------------------------------------------------------------------
(* handleHandResults *)

\* JavaScript truthiness of currentShape / selectedShape and of originalDistance
\* (null and 0 are both falsy)
HasShape(x) == x # NullShape
TruthyDistance(d) == d # NullDistance /\ d # 0

\* mutant: the ratio is applied on top of the scale of the frame before
scaleCurrentShapeCumulative(s, distance) ==
    LET old == s.objs[s.currentShape].scale
    IN [s EXCEPT !.objs[s.currentShape].scale =
            Ratio(old[1] * distance, old[2] * s.originalDistance)]

\* currentShape.scale.set(shapeScale, shapeScale, shapeScale) with
\* shapeScale = distance / originalDistance
scaleCurrentShape(s, distance) ==
    [s EXCEPT !.objs[s.currentShape].scale = Ratio(distance, s.originalDistance)]

\* mutant: the cooldown is forgotten
creationAllowedNoCooldown(s, indexesClose, t) ==
    /\ ~s.shapeCreatedThisPinch
    /\ indexesClose

\* mutant: the cooldown test is not strict
creationAllowedAtCooldown(s, indexesClose, t) ==
    /\ ~s.shapeCreatedThisPinch
    /\ indexesClose
    /\ t - s.lastShapeCreationTime >= shapeCreationCooldown

\* the test that guards the creation at gesture start
creationAllowed(s, indexesClose, t) ==
    /\ ~s.shapeCreatedThisPinch
    /\ indexesClose
    /\ t - s.lastShapeCreationTime > shapeCreationCooldown

\* mutant: the creation is debounced by the cooldown alone, on every frame of
\* the pinch
pinchGestureCooldownOnly(s, l, r, t) ==
    LET left == l.lm8
        right == r.lm8
        centerX == (left[1] + right[1]) \div 2
        centerY == (left[2] + right[2]) \div 2
        distance == Sqrt(SumSq2(left, right))
        s1 == IF areIndexFingersClose(l, r)
                 /\ t - s.lastShapeCreationTime > shapeCreationCooldown
              THEN LET c == createRandomShape(s, get3DCoords(centerX, centerY))
                   IN [c.st EXCEPT !.currentShape = c.created,
                                   !.lastShapeCreationTime = t,
                                   !.shapeCreatedThisPinch = TRUE,
                                   !.originalDistance = distance]
              ELSE IF HasShape(s.currentShape) /\ TruthyDistance(s.originalDistance)
                   THEN scaleCurrentShape(s, distance)
                   ELSE s
    IN [s1 EXCEPT !.isPinching = TRUE, !.binActive = FALSE]

\* mutant: a pinch that has created nothing tries again on every frame
pinchGestureRetry(s, l, r, t) ==
    IF ~l.has8 \/ ~r.has8 THEN s
    ELSE
    LET left == l.lm8
        right == r.lm8
        centerX == (left[1] + right[1]) \div 2
        centerY == (left[2] + right[2]) \div 2
        distance == Sqrt(SumSq2(left, right))
        indexesClose == areIndexFingersClose(l, r)
        s1 == IF creationAllowed(s, indexesClose, t)
              THEN LET c == createRandomShape(s, get3DCoords(centerX, centerY))
                   IN [c.st EXCEPT !.currentShape = c.created,
                                   !.lastShapeCreationTime = t,
                                   !.shapeCreatedThisPinch = TRUE,
                                   !.originalDistance = distance]
              ELSE IF HasShape(s.currentShape) /\ TruthyDistance(s.originalDistance)
                   THEN scaleCurrentShape(s, distance)
                   ELSE s
    IN [s1 EXCEPT !.isPinching = TRUE, !.binActive = FALSE]

\* the body of  if (leftPinch && rightPinch) { ... return; }
pinchGesture(s, l, r, t) ==
    IF ~l.has8 \/ ~r.has8 THEN s
    ELSE
    LET left == l.lm8
        right == r.lm8
        centerX == (left[1] + right[1]) \div 2
        centerY == (left[2] + right[2]) \div 2
        distance == Sqrt(SumSq2(left, right))
        indexesClose == areIndexFingersClose(l, r)
        s1 == IF ~s.isPinching
              THEN IF creationAllowed(s, indexesClose, t)
                   THEN LET c == createRandomShape(s, get3DCoords(centerX, centerY))
                        IN [c.st EXCEPT !.currentShape = c.created,
                                        !.lastShapeCreationTime = t,
                                        !.shapeCreatedThisPinch = TRUE,
                                        !.originalDistance = distance]
                   ELSE s
              ELSE IF HasShape(s.currentShape) /\ TruthyDistance(s.originalDistance)
                   THEN scaleCurrentShape(s, distance)
                   ELSE s
    IN [s1 EXCEPT !.isPinching = TRUE, !.binActive = FALSE]

\* mutant: the reset leaves currentShape in place
resetPinchKeepsShape(s) ==
    [s EXCEPT !.isPinching = FALSE, !.shapeCreatedThisPinch = FALSE,
              !.originalDistance = NullDistance]

\* "If we reach here, we're not in a two-hand pinch gesture"
resetPinch(s) ==
    [s EXCEPT !.isPinching = FALSE, !.shapeCreatedThisPinch = FALSE,
              !.originalDistance = NullDistance, !.currentShape = NullShape]

\* mutant: the shape is taken out of the scene but stays in the registry
removeShapeSceneOnly(s, shape) == s

\* mutant: the filter drops the shapes inserted after the removed one as well
removeShapeAndLater(s, shape) ==
    [s EXCEPT !.shapes =
        IF shape \in Range(@)
        THEN SubSeq(@, 1, (CHOOSE k \in DOMAIN @ : @[k] = shape) - 1)
        ELSE @]

\* mutant: shapes.splice(shapes.indexOf(shape), 1), which takes the last
\* shape out when shape is not in the registry
removeShapeBySplice(s, shape) ==
    [s EXCEPT !.shapes =
        IF shape \in Range(@) THEN SeqRemove(@, shape)
        ELSE SubSeq(@, 1, Len(@) - 1)]

\* scene.remove(shape); shapes = shapes.filter(s => s !== shape)
removeShape(s, shape) == [s EXCEPT !.shapes = SeqRemove(@, shape)]

\* mutant: a pinch of one hand on empty space creates a shape there, as a
\* mouse press does
singleHandGestureCreates(s, landmarks) ==
    LET position == get3DCoords(landmarks.lm8[1], landmarks.lm8[2])
    IN IF isPinch(landmarks)
       THEN LET s1 == IF ~HasShape(s.selectedShape)
                      THEN IF HasShape(findNearestShape(s, position))
                           THEN [s EXCEPT !.selectedShape = findNearestShape(s, position)]
                           ELSE LET c == createRandomShape(s, position)
                                IN [c.st EXCEPT !.selectedShape = c.created]
                      ELSE s
                sel == s1.selectedShape
            IN IF HasShape(sel)
               THEN LET s2 == [s1 EXCEPT !.objs[sel].position = position]
                        inBin == isInRecycleBinZone(s2, s2.objs[sel].position)
                    IN [s2 EXCEPT !.objs[sel].wire = IF inBin THEN "red" ELSE "white",
                                  !.binActive = inBin]
               ELSE s1
       ELSE LET sel == s.selectedShape
                s1 == IF HasShape(sel)
                      THEN [(IF isInRecycleBinZone(s, s.objs[sel].position)
                             THEN removeShape(s, sel) ELSE s)
                            EXCEPT !.selectedShape = NullShape]
                      ELSE s
            IN [s1 EXCEPT !.binActive = FALSE]

\* one pass of the single-hand loop for a hand that is not skipped
singleHandGesture(s, landmarks) ==
    LET position == get3DCoords(landmarks.lm8[1], landmarks.lm8[2])
    IN IF isPinch(landmarks)
       THEN LET s1 == IF ~HasShape(s.selectedShape)
                      THEN [s EXCEPT !.selectedShape = findNearestShape(s, position)]
                      ELSE s
                sel == s1.selectedShape
            IN IF HasShape(sel)
               THEN LET s2 == [s1 EXCEPT !.objs[sel].position = position]
                        inBin == isInRecycleBinZone(s2, s2.objs[sel].position)
                    IN [s2 EXCEPT !.objs[sel].wire = IF inBin THEN "red" ELSE "white",
                                  !.binActive = inBin]
               ELSE s1
       ELSE LET sel == s.selectedShape
                s1 == IF HasShape(sel)
                      THEN [(IF isInRecycleBinZone(s, s.objs[sel].position)
                             THEN removeShape(s, sel) ELSE s)
                            EXCEPT !.selectedShape = NullShape]
                      ELSE s
            IN [s1 EXCEPT !.binActive = FALSE]

\* mutant: the frame without hands only clears the selection
noHandsKeepsShape(s) == [s EXCEPT !.selectedShape = NullShape, !.binActive = FALSE]

\* "No hands detected - clean up any state"
noHands(s) ==
    LET sel == s.selectedShape
        s1 == IF HasShape(sel) /\ isInRecycleBinZone(s, s.objs[sel].position)
              THEN removeShape(s, sel) ELSE s
    IN [s1 EXCEPT !.selectedShape = NullShape, !.binActive = FALSE]

\* mutant: the loop does not test landmarks[8]
skipsHandLengthOnly(landmarks) ==
    ~landmarks.present \/ landmarks.len < LandmarkCount

\* if (!landmarks || landmarks.length < 21 || !landmarks[8]) continue;
skipsHand(landmarks) ==
    ~landmarks.present \/ landmarks.len < LandmarkCount \/ ~landmarks.has8

RECURSIVE singleHands(_, _)
\* for (const landmarks of results.multiHandLandmarks) { ... }
singleHands(s, hands) ==
    IF hands = <<>> THEN s
    ELSE singleHands(IF skipsHand(Head(hands)) THEN s
                     ELSE singleHandGesture(s, Head(hands)),
                     Tail(hands))

\* mutant: the two-hand branch does not return, the frame goes on to the reset
\* and to the single-hand loop
handleHandResultsNoReturn(s, results, t) ==
    IF ~s.isApplicationRunning THEN s
    ELSE IF ~results.hasList THEN s
    ELSE LET hands == results.hands
             two == Len(hands) = 2
         IN IF two /\ (~hands[1].present \/ ~hands[2].present
                       \/ hands[1].len < LandmarkCount \/ hands[2].len < LandmarkCount)
            THEN s
            ELSE LET s0 == IF two /\ isPinch(hands[1]) /\ isPinch(hands[2])
                           THEN pinchGesture(s, hands[1], hands[2], t) ELSE s
                     s1 == resetPinch(s0)
                 IN IF Len(hands) > 0 THEN singleHands(s1, hands) ELSE noHands(s1)

\* mutant: the handler does not look at isApplicationRunning
handleHandResultsWhileStopped(s, results, t) ==
    IF ~results.hasList THEN s
    ELSE LET hands == results.hands
             two == Len(hands) = 2
         IN IF two /\ (~hands[1].present \/ ~hands[2].present
                       \/ hands[1].len < LandmarkCount \/ hands[2].len < LandmarkCount)
            THEN s
            ELSE IF two /\ isPinch(hands[1]) /\ isPinch(hands[2])
            THEN pinchGesture(s, hands[1], hands[2], t)
            ELSE LET s1 == resetPinch(s)
                 IN IF Len(hands) > 0 THEN singleHands(s1, hands) ELSE noHands(s1)

\* mutant: a result without hand list is treated as a frame without hands
handleHandResultsNoListAsNoHands(s, results, t) ==
    IF ~s.isApplicationRunning THEN s
    ELSE IF ~results.hasList THEN noHands(resetPinch(s))
    ELSE LET hands == results.hands
             two == Len(hands) = 2
         IN IF two /\ (~hands[1].present \/ ~hands[2].present
                       \/ hands[1].len < LandmarkCount \/ hands[2].len < LandmarkCount)
            THEN s
            ELSE IF two /\ isPinch(hands[1]) /\ isPinch(hands[2])
            THEN pinchGesture(s, hands[1], hands[2], t)
            ELSE LET s1 == resetPinch(s)
                 IN IF Len(hands) > 0 THEN singleHands(s1, hands) ELSE noHands(s1)

\* handleHandResults of src/unnamed/part_000; t is Date.now()
handleHandResults(s, results, t) ==
    IF ~s.isApplicationRunning THEN s
    ELSE IF ~results.hasList THEN s
    ELSE LET hands == results.hands
             two == Len(hands) = 2
         IN IF two /\ (~hands[1].present \/ ~hands[2].present
                       \/ hands[1].len < LandmarkCount \/ hands[2].len < LandmarkCount)
            THEN s
            ELSE IF two /\ isPinch(hands[1]) /\ isPinch(hands[2])
            THEN pinchGesture(s, hands[1], hands[2], t)
            ELSE LET s1 == resetPinch(s)
                 IN IF Len(hands) > 0 THEN singleHands(s1, hands) ELSE noHands(s1)

\* if (!landmarks || !landmarks[8]) continue;
skipsHandMain(landmarks) == ~landmarks.present \/ ~landmarks.has8

\* mutant: the loop of main.js ends after the first hand
singleHandsMainFirstOnly(s, hands) ==
    IF hands = <<>> \/ skipsHandMain(Head(hands)) THEN s
    ELSE singleHandGesture(s, Head(hands))

RECURSIVE singleHandsMain(_, _)
singleHandsMain(s, hands) ==
    IF hands = <<>> THEN s
    ELSE singleHandsMain(IF skipsHandMain(Head(hands)) THEN s
                         ELSE singleHandGesture(s, Head(hands)),
                         Tail(hands))

\* handleHandResults of src/main.js.  results.multiHandLandmarks absent:
\* both length tests fail, so the handler falls through to the reset and the
\* no-hands branch.
handleHandResultsMain(s, results, t) ==
    IF ~s.isApplicationRunning THEN s
    ELSE LET hands == results.hands
             two == results.hasList /\ Len(hands) = 2
         IN IF two /\ (~hands[1].present \/ ~hands[2].present)
            THEN s
            ELSE IF two /\ isPinch(hands[1]) /\ isPinch(hands[2])
            THEN pinchGesture(s, hands[1], hands[2], t)
            ELSE LET s1 == resetPinch(s)
                 IN IF results.hasList /\ Len(hands) > 0
                    THEN singleHandsMain(s1, hands) ELSE noHands(s1)

-----------------------------------------------------------------------------
(* setupMouseControls and the manual controls of enableOfflineMode *)

\* the closure variables of one call of setupMouseControls
NewControls == [isDragging |-> FALSE, selectedViaMouseShape |-> NullShape]

\* pointer positions, as the point of the plane z = 0 under the pointer
\* (mouseToWorld): over the place where hand gestures create shapes and over
\* the recycle bin.  Every shape of a behaviour with mouse events is centred
\* at one of them, and they lie farther apart than any shape extends.
PointerM == get3DCoords(TipM[1], TipM[2])
PointerB == get3DCoords(TipB[1], TipB[2])
Pointers == {PointerM, PointerB}

\* findShapeUnderMouse: the registry shape the ray from the pointer meets
\* first.  A ray through the centre of a shape meets it; of several shapes
\* centred there the geometry decides which is in front: front is that
\* choice of the scene, an input of the event.
findShapeUnderMouse(s, pointer, front) ==
    LET at == {i \in Range(s.shapes) : s.objs[i].position = pointer}
    IN IF at = {} THEN NullShape
       ELSE IF front \in at THEN front
       ELSE CHOOSE i \in at : \A j \in at : i <= j

\* mutant: the shape a press creates becomes currentShape, as the one a
\* two-hand pinch creates
mousedownAsGesture(s, c, pointer, front, leftButton) ==
    LET shape == findShapeUnderMouse(s, pointer, front)
    IN IF shape # NullShape
       THEN [st |-> [s EXCEPT !.objs[shape].wire = "cyan"],
             c |-> [isDragging |-> TRUE, selectedViaMouseShape |-> shape]]
       ELSE IF leftButton
       THEN LET r == createRandomShape(s, pointer)
            IN [st |-> [r.st EXCEPT !.currentShape = r.created], c |-> c]
       ELSE [st |-> s, c |-> c]

\* the mousedown listener of one closure c; leftButton is event.button === 0
mousedown(s, c, pointer, front, leftButton) ==
    LET shape == findShapeUnderMouse(s, pointer, front)
    IN IF shape # NullShape
       THEN [st |-> [s EXCEPT !.objs[shape].wire = "cyan"],
             c |-> [isDragging |-> TRUE, selectedViaMouseShape |-> shape]]
       ELSE IF leftButton
       THEN [st |-> createRandomShape(s, pointer).st, c |-> c]
       ELSE [st |-> s, c |-> c]

\* the mousemove listener of one closure c
mousemove(s, c, pointer) ==
    IF c.isDragging /\ c.selectedViaMouseShape # NullShape
    THEN LET sel == c.selectedViaMouseShape
             s1 == [s EXCEPT !.objs[sel].position = pointer]
             inBin == isInRecycleBinZone(s1, s1.objs[sel].position)
         IN [st |-> [s1 EXCEPT !.objs[sel].wire = IF inBin THEN "red" ELSE "cyan",
                               !.binActive = inBin],
             c |-> c]
    ELSE [st |-> s, c |-> c]

\* mutant: the release never deletes
mouseupNeverDeletes(s, c) ==
    LET sel == c.selectedViaMouseShape
        s1 == IF c.isDragging /\ sel # NullShape
              THEN [s EXCEPT !.objs[sel].wire = "white"]
              ELSE s
    IN [st |-> [s1 EXCEPT !.binActive = FALSE], c |-> NewControls]

\* the mouseup listener of one closure c
mouseup(s, c) ==
    LET sel == c.selectedViaMouseShape
        s1 == IF c.isDragging /\ sel # NullShape
              THEN IF isInRecycleBinZone(s, s.objs[sel].position)
                   THEN removeShape(s, sel)
                   ELSE [s EXCEPT !.objs[sel].wire = "white"]
              ELSE s
    IN [st |-> [s1 EXCEPT !.binActive = FALSE], c |-> NewControls]

\* shape.scale.multiplyScalar(scaleFactor): 0.9 if deltaY > 0, else 1.1
wheelScale(scale, deltaYPositive) ==
    IF deltaYPositive THEN Ratio(scale[1] * 9, scale[2] * 10)
    ELSE Ratio(scale[1] * 11, scale[2] * 10)

\* the wheel listener of one closure c
wheel(s, c, pointer, front, deltaYPositive) ==
    LET shape == findShapeUnderMouse(s, pointer, front)
    IN IF shape # NullShape
       THEN [st |-> [s EXCEPT !.objs[shape].scale = wheelScale(@, deltaYPositive)],
             c |-> c]
       ELSE [st |-> s, c |-> c]

\* the event is not a mouse event
NoMouse == [type |-> "none", pointer |-> <<0, 0, 0>>, front |-> 1, flag |-> FALSE]

\* a mouse event: its type and what the handlers read of it
MouseEvents ==
    [type : {"mousedown"}, pointer : Pointers, front : Ids, flag : BOOLEAN]
        \cup [type : {"mousemove"}, pointer : Pointers, front : {1}, flag : {FALSE}]
        \cup [type : {"mouseup"}, pointer : {PointerM}, front : {1}, flag : {FALSE}]
        \cup [type : {"wheel"}, pointer : Pointers, front : Ids, flag : BOOLEAN]

\* the listener of closure c for the event ev (flag is leftButton of a
\* mousedown and deltaY > 0 of a wheel event)
mouseListener(s, c, ev) ==
    IF ev.type = "mousedown" THEN mousedown(s, c, ev.pointer, ev.front, ev.flag)
    ELSE IF ev.type = "mousemove" THEN mousemove(s, c, ev.pointer)
    ELSE IF ev.type = "mouseup" THEN mouseup(s, c)
    ELSE wheel(s, c, ev.pointer, ev.front, ev.flag)

RECURSIVE dispatchMouse(_, _, _, _)
\* the canvas dispatches ev to the listeners of every closure, in the order
\* in which setupMouseControls added them; done are the closures already run
dispatchMouse(s, done, todo, ev) ==
    IF todo = <<>> THEN [st |-> s, cs |-> done]
    ELSE LET r == mouseListener(s, Head(todo), ev)
         IN dispatchMouse(r.st, Append(done, r.c), Tail(todo), ev)

\* the click listener of the Clear All Shapes button
clearShapes(s) == [s EXCEPT !.shapes = <<>>]

\* the handles the closures of setupMouseControls refer to
MouseHeld(cs) == {cs[k].selectedViaMouseShape : k \in DOMAIN cs}

\* garbage collection: an object that is neither in the registry nor referenced
\* by a variable (held: by a closure) can never be reached again; its handle
\* becomes free
Collect(s, held) ==
    [s EXCEPT !.objs = [i \in Ids |->
        IF i \in Range(s.shapes) \/ i = s.selectedShape \/ i = s.currentShape
           \/ i \in held
        THEN s.objs[i] ELSE FreeObj]]

-----------------------------------------------------------------------------
(* The render loop and the teardown *)

\* mutant: animate without the isApplicationRunning test
animateUnconditional(s) == [scheduled |-> TRUE, rendered |-> TRUE]

\* animate: whether it called requestAnimationFrame(animate) and whether it
\* called renderer.render.  The rotation it gives the shapes is read by
\* nothing in the model and is left out.
animate(s) ==
    IF ~s.isApplicationRunning THEN [scheduled |-> FALSE, rendered |-> FALSE]
    ELSE [scheduled |-> TRUE, rendered |-> TRUE]

-----------------------------------------------------------------------------
(* What a frame is, read off the input alone *)

CompleteHand(h) == h.present /\ h.len = LandmarkCount

\* two entries, both pinching
BothPinching(results) ==
    /\ results.hasList
    /\ Len(results.hands) = 2
    /\ isPinch(results.hands[1])
    /\ isPinch(results.hands[2])

\* two hands (each the 21 landmarks of a hand), both pinching
TwoHandPinch(results) ==
    /\ BothPinching(results)
    /\ CompleteHand(results.hands[1])
    /\ CompleteHand(results.hands[2])

\* a frame with exactly one hand, complete and with an index tip
OneHand(results) ==
    /\ results.hasList
    /\ Len(results.hands) = 1
    /\ CompleteHand(results.hands[1])
    /\ results.hands[1].has8

NoHandsFrame(results) == results.hasList /\ Len(results.hands) = 0

\* distance between the two index tips of a two-hand frame
TipDistance(results) == Sqrt(SumSq2(results.hands[1].lm8, results.hands[2].lm8))

\* the index tip of a one-hand frame, mapped to world coordinates
TipPosition(results) == get3DCoords(results.hands[1].lm8[1], results.hands[1].lm8[2])

InZoneNow(position) == isInRecycleBinZone([window |-> window, camera |-> camera], position)

\* The end-to-end scenario, told by the frames delivered to a running
\* application:
\*   "created"   an empty registry, the cooldown elapsed, no pinch going on,
\*               and a two-hand pinch with close index tips arrives;
\*   "scaled"    the pinch is held and the tips are farther apart than they
\*               were at the creation; stays while the hands are gone;
\*   "dragged"   then one hand pinches within the radius of the shape, and
\*               goes on pinching outside the recycle zone;
\*   "over bin"  the pinching hand is over the recycle zone;
\*   "recycled"  the hand over the recycle zone opens.
\* Any other frame leaves the scenario ("none").
ScenarioAfter(results) ==
    IF ~isApplicationRunning THEN scenario
    ELSE IF TwoHandPinch(results)
    THEN IF /\ shapes = <<>>
            /\ ~isPinching
            /\ now - lastShapeCreationTime > shapeCreationCooldown
            /\ areIndexFingersClose(results.hands[1], results.hands[2])
         THEN "created"
         ELSE IF /\ scenario \in {"created", "scaled"}
                 /\ isPinching
                 /\ TipDistance(results) > originalDistance
         THEN "scaled"
         ELSE "none"
    ELSE IF NoHandsFrame(results)
    THEN IF scenario = "scaled" THEN "scaled" ELSE "none"
    ELSE IF OneHand(results) /\ isPinch(results.hands[1])
    THEN IF \/ scenario \in {"dragged", "over bin"}
            \/ /\ scenario = "scaled"
               /\ SumSq3(objs[shapes[1]].position, TipPosition(results))
                     < NearestRadius * NearestRadius
         THEN IF InZoneNow(TipPosition(results)) THEN "over bin" ELSE "dragged"
         ELSE "none"
    ELSE IF OneHand(results) /\ scenario = "over bin"
    THEN "recycled"
    ELSE "none"

\* whether, after the frame results has left the globals as in h, a two-hand
\* pinch is going on that began with a refusal: a running application has
\* taken a two-hand pinch frame for the start of the gesture (isPinching was
\* false) and created nothing, and isPinching has been true since
RefusedAfter(results, h) ==
    IF isApplicationRunning /\ TwoHandPinch(results) /\ ~isPinching
    THEN Range(h.shapes) = Range(shapes)
    ELSE refused /\ h.isPinching

-----------------------------------------------------------------------------
(* The state machine *)

NoEvent == [op |-> "load", results |-> NoList, mouse |-> NoMouse]

\* no helper has been called
NoCall == [fn |-> "none", hands |-> <<>>, position |-> <<0, 0, 0>>, shape |-> NullShape]
\* a call returns a boolean (truth) or a shape or null (shape)
NoValue == [truth |-> FALSE, shape |-> NullShape]

Viewport == [innerWidth |-> 1200, innerHeight |-> 800]

\* nothing of the initialization chain after initThree has run
BootInit ==
    /\ handsInit = "idle"
    /\ handsInitialized = FALSE
    /\ windowHands = "none"
    /\ cameraInit = "idle"
    /\ streamCall = 0
    /\ metadataLoaded = FALSE
    /\ timedOut = {}
    /\ frameLoops = 0
    /\ onFrame = "idle"
    /\ frameErrorCount = 0
    /\ failedInRow = 0

InitFor(v) ==
    /\ version = v
    /\ isApplicationRunning = FALSE
    /\ shapes = <<>>
    /\ objs = [i \in Ids |-> FreeObj]
    /\ currentShape = NullShape
    /\ isPinching = FALSE
    /\ originalDistance = NullDistance
    /\ selectedShape = NullShape
    /\ shapeCreatedThisPinch = FALSE
    /\ lastShapeCreationTime = 0
    /\ binActive = FALSE
    /\ window = Viewport
    /\ camera = [aspect |-> Ratio(Viewport.innerWidth, Viewport.innerHeight)]
    /\ now = StartTime
    /\ event = NoEvent
    /\ sessionCreated = 0
    /\ initPhase = "loaded"
    /\ listeners = {}
    /\ rafAnimate = FALSE
    /\ effects = {}
    /\ rendered = FALSE
    /\ removed = {}
    /\ offlineControls = 0
    /\ mouseControls = <<>>
    /\ scenario = "none"
    /\ refused = FALSE
    /\ call = NoCall
    /\ returned = NoValue
    /\ BootInit

Init == InitFor("part000")
InitMain == InitFor("main")

\* the handlers installed by the fallback paths
inputVars == <<offlineControls, mouseControls, scenario, refused, call, returned>>

\* the variables of the gesture state machine and of the scene
sceneVars == <<shapes, objs, currentShape, isPinching, originalDistance,
               selectedShape, shapeCreatedThisPinch, lastShapeCreationTime,
               binActive, effects>>

\* initThree: scene, camera and renderer are made and animate() is called.
\* In src/main.js initApp calls it synchronously and then registers the window
\* listeners; src/unnamed/part_000 registers none.
initThree ==
    /\ initPhase = "loaded"
    /\ initPhase' = "three"
    /\ camera' = [aspect |-> Ratio(window.innerWidth, window.innerHeight)]
    /\ \E a \in {animate(State)} :
          /\ rafAnimate' = a.scheduled
          /\ rendered' = a.rendered
    /\ listeners' = IF version = "main" THEN {"resize", "beforeunload"} ELSE {}
    /\ event' = [op |-> "three", results |-> NoList, mouse |-> NoMouse]
    /\ removed' = {}
    /\ UNCHANGED <<bootVars, version, isApplicationRunning, sceneVars, window, now,
                   sessionCreated, inputVars>>

\* the last step of the initialization chain: isApplicationRunning = true
initComplete ==
    /\ initPhase = "three"
    /\ initPhase' = "done"
    /\ isApplicationRunning' = TRUE
    /\ event' = [op |-> "init", results |-> NoList, mouse |-> NoMouse]
    /\ rendered' = FALSE
    /\ removed' = {}
    /\ UNCHANGED <<bootVars, version, sceneVars, window, camera, now, sessionCreated,
                   listeners, rafAnimate, inputVars>>

\* cleanup, the beforeunload listener
cleanup ==
    /\ "beforeunload" \in listeners
    /\ isApplicationRunning' = FALSE
    /\ listeners' = listeners \ {"resize", "beforeunload"}
    /\ event' = [op |-> "cleanup", results |-> NoList, mouse |-> NoMouse]
    /\ rendered' = FALSE
    /\ removed' = {}
    /\ UNCHANGED <<bootVars, version, sceneVars, window, camera, now, sessionCreated,
                   initPhase, rafAnimate, inputVars>>

\* the browser runs the callbacks registered with requestAnimationFrame:
\* animate if it is pending, and expandAndFade of every feedback mesh
AnimationFrame ==
    /\ rafAnimate \/ effects # {}
    /\ \E a \in {IF rafAnimate THEN animate(State)
                  ELSE [scheduled |-> FALSE, rendered |-> FALSE]} :
          /\ rafAnimate' = a.scheduled
          /\ rendered' = a.rendered
    /\ effects' = {expandAndFade(o) : o \in effects} \ {0}
    /\ event' = [op |-> "frame", results |-> NoList, mouse |-> NoMouse]
    /\ removed' = {}
    /\ UNCHANGED <<bootVars, version, isApplicationRunning, shapes, objs, currentShape,
                   isPinching, originalDistance, selectedShape,
                   shapeCreatedThisPinch, lastShapeCreationTime, binActive,
                   window, camera, now, sessionCreated, initPhase, listeners,
                   inputVars>>

\* time passes between two events
TickSteps == {999, 1000, 1001}

Tick ==
    \E d \in TickSteps :
        /\ now + d <= MaxTime
        /\ now' = now + d
        /\ event' = [op |-> "tick", results |-> NoList, mouse |-> NoMouse]
        /\ rendered' = FALSE
        /\ removed' = {}
        /\ UNCHANGED <<bootVars, version, isApplicationRunning, sceneVars, window, camera,
                       sessionCreated, initPhase, listeners, rafAnimate,
                       inputVars>>

Handled(results) ==
    IF version = "part000" THEN handleHandResults(State, results, now)
    ELSE handleHandResultsMain(State, results, now)

\* the tracker delivers a result of the set frames and the onResults callback
\* runs (h and g are bound by \E over a singleton so that each is computed
\* once)
HandFrameFrom(frames) ==
    \E results \in frames :
      \E h \in {Handled(results)} :
        \E g \in {Collect(h, MouseHeld(mouseControls))} :
           /\ ~h.full
           /\ shapes' = g.shapes
           /\ objs' = g.objs
           /\ currentShape' = g.currentShape
           /\ isPinching' = g.isPinching
           /\ originalDistance' = g.originalDistance
           /\ selectedShape' = g.selectedShape
           /\ shapeCreatedThisPinch' = g.shapeCreatedThisPinch
           /\ lastShapeCreationTime' = g.lastShapeCreationTime
           /\ binActive' = g.binActive
           /\ effects' = g.effects
           /\ event' = [op |-> "hand", results |-> results, mouse |-> NoMouse]
           /\ sessionCreated' =
                 IF BothPinching(results)
                 THEN sessionCreated + Cardinality(Range(h.shapes) \ Range(shapes))
                 ELSE 0
           /\ rendered' = FALSE
           /\ removed' = Range(shapes) \ Range(h.shapes)
           /\ scenario' = ScenarioAfter(results)
           /\ refused' = RefusedAfter(results, h)
           /\ UNCHANGED <<bootVars, version, isApplicationRunning, window, camera, now,
                          initPhase, listeners, rafAnimate, offlineControls,
                          mouseControls, call, returned>>

HandFrame == HandFrameFrom(Frames)

\* enableOfflineMode: the click handlers of the manual controls are added and
\* setupMouseControls runs, which returns at once while the canvas of
\* initThree does not exist.  It is called when hand tracking or the camera
\* fails to initialize.
enableOfflineMode ==
    /\ offlineControls < MaxControls
    /\ offlineControls' = offlineControls + 1
    /\ mouseControls' = IF initPhase = "loaded" THEN mouseControls
                        ELSE Append(mouseControls, NewControls)
    /\ event' = [op |-> "offline", results |-> NoList, mouse |-> NoMouse]
    /\ rendered' = FALSE
    /\ removed' = {}
    /\ UNCHANGED <<bootVars, version, isApplicationRunning, sceneVars, window, camera, now,
                   sessionCreated, initPhase, listeners, rafAnimate, scenario,
                   refused, call, returned>>

\* what is not among the globals a handler reads and writes
inputFrame == <<bootVars, version, isApplicationRunning, window, camera, now,
                sessionCreated, initPhase, listeners, rafAnimate,
                offlineControls, scenario, refused, call, returned>>

\* the globals are as the handler left them in g
Becomes(g) ==
    /\ shapes' = g.shapes
    /\ objs' = g.objs
    /\ currentShape' = g.currentShape
    /\ isPinching' = g.isPinching
    /\ originalDistance' = g.originalDistance
    /\ selectedShape' = g.selectedShape
    /\ shapeCreatedThisPinch' = g.shapeCreatedThisPinch
    /\ lastShapeCreationTime' = g.lastShapeCreationTime
    /\ binActive' = g.binActive
    /\ effects' = g.effects

\* the wheel is bounded: no scale beyond MaxScaleTerm / MaxScaleTerm
ScaleInBounds(s) ==
    \A i \in Ids : s.objs[i].scale[1] <= MaxScaleTerm /\ s.objs[i].scale[2] <= MaxScaleTerm

\* front names a shape under the pointer (or is 1 where it names nothing)
FrontUnderPointer(ev) ==
    \/ ev.front = 1
    \/ ev.front \in Range(shapes) /\ objs[ev.front].position = ev.pointer

\* a mouse event of the set events on the canvas, handled by every closure
\* in turn
MouseEventFrom(events) ==
    /\ mouseControls # <<>>
    /\ \E ev \in events :
         \E r \in {dispatchMouse(State, <<>>, mouseControls, ev)} :
           \E g \in {Collect(r.st, MouseHeld(r.cs))} :
              /\ FrontUnderPointer(ev)
              /\ ~r.st.full
              /\ ScaleInBounds(r.st)
              /\ Becomes(g)
              /\ mouseControls' = r.cs
              /\ event' = [op |-> ev.type, results |-> NoList, mouse |-> ev]
              /\ rendered' = FALSE
              /\ removed' = Range(shapes) \ Range(r.st.shapes)
              /\ UNCHANGED inputFrame

MouseEvent == MouseEventFrom(MouseEvents)

\* the events of the mouse buttons and of the pointer
ButtonEvents == {ev \in MouseEvents : ev.type # "wheel"}

ButtonEvent == MouseEventFrom(ButtonEvents)

\* a click on the Clear All Shapes button: one listener per call of
\* enableOfflineMode, all on the first button of that id
ClearAllClick ==
    /\ offlineControls > 0
    /\ \E g \in {Collect(clearShapes(State), MouseHeld(mouseControls))} :
          Becomes(g)
    /\ event' = [op |-> "clear", results |-> NoList, mouse |-> NoMouse]
    /\ rendered' = FALSE
    /\ removed' = Range(shapes)
    /\ UNCHANGED <<mouseControls, inputFrame>>

\* frames of the behaviours with mouse events: hands over PointerM and
\* PointerB only
InputFrames ==
    {Results(<<>>),
     Results(<<PinchAt(TipM[1], TipM[2])>>),
     Results(<<PinchAt(TipB[1], TipB[2])>>),
     Results(TwoPinch(10))}

InputHandFrame == HandFrameFrom(InputFrames)

\* hand tracking, the mouse fallback and the manual controls together
NextInput ==
    initThree \/ initComplete \/ enableOfflineMode \/ InputHandFrame
        \/ ButtonEvent \/ ClearAllClick

SpecInput == Init /\ [][NextInput]_vars

\* the mouse fallback alone, the wheel included
NextMouse == initThree \/ initComplete \/ enableOfflineMode \/ MouseEvent

SpecMouse == Init /\ [][NextMouse]_vars

-----------------------------------------------------------------------------
(* The helper functions, called one at a time on arguments of their own *)

\* the shapes a call can be about: one more than can be alive in the other
\* behaviours, so that a registry can hold a shape between two others
CallIds == 1..(MaxShapes + 1)

\* where the shapes of these registries are: shape 1 and shape 2 lie 0.5 to
\* either side of the point <<20, 0, 0>>, shape 3 lies exactly 1.5 from it
CallPosition(i) == <<20 * i - 10, 0, 0>>

\* a shape of such a registry; the wheel has given each a scale of its own
CallObj(i) ==
    [live |-> TRUE, position |-> CallPosition(i), scale |-> Ratio(i + 1, 2),
     wire |-> "white"]

RECURSIVE Registries(_)
\* every registry of shapes of the set ids: sequences without repetition
Registries(ids) ==
    {<<>>} \cup UNION {{<<i>> \o r : r \in Registries(ids \ {i})} : i \in ids}

\* thumb tip minus index tip of the hands isPinch is called on; squared
\* lengths 144 (= 0.06 squared), 121, 137, 145, 153 and 136
ThumbOffsets ==
    {<<12, 0, 0>>, <<0, 0, 12>>, <<8, 8, 4>>, <<11, 0, 0>>, <<0, 0, 11>>,
     <<8, 8, 3>>, <<10, 6, 3>>, <<8, 8, 5>>, <<10, 6, 0>>}

NoThumbHand ==
    [present |-> TRUE, len |-> LandmarkCount, has4 |-> FALSE, lm4 |-> NoPoint,
     has8 |-> TRUE, lm8 |-> <<100, 100, 0>>]

PinchCallHands ==
    {MkHand(LandmarkCount, <<100 + o[1], 100 + o[2], o[3]>>, <<100, 100, 0>>) :
        o \in ThumbOffsets}
        \cup {NullHand, NoIndexHand, NoThumbHand}

\* right index tip minus left index tip, with the depth of the right tip;
\* squared 2D lengths 576 (= 0.12 squared), 529, 569, 586 and 0
IndexOffsets ==
    {<<24, 0, 0>>, <<0, 24, 0>>, <<23, 0, 0>>, <<23, 0, 50>>, <<13, 20, 0>>,
     <<13, 20, 50>>, <<15, 19, 0>>, <<0, 0, 50>>}

CloseCallPairs ==
    {<<PinchAt(100, 100), MkHand(LandmarkCount, NoPoint, <<100 + o[1], 100 + o[2], o[3]>>)>> :
        o \in IndexOffsets}
        \cup {<<NullHand, PinchAt(100, 100)>>, <<PinchAt(100, 100), NullHand>>,
              <<NoIndexHand, PinchAt(100, 100)>>, <<PinchAt(100, 100), NoIndexHand>>}

\* sizes of the browser window: the size at load; 440 x 440, where the
\* centre of the canvas lies on the left and on the top edge of the bin
\* rectangle, and 442 x 440, where it lies one pixel left of it; 120 x 120,
\* where it lies on the right and on the bottom edge, and 120 x 118, where it
\* lies one pixel below
Viewports ==
    {Viewport,
     [innerWidth |-> 440, innerHeight |-> 440],
     [innerWidth |-> 442, innerHeight |-> 440],
     [innerWidth |-> 120, innerHeight |-> 120],
     [innerWidth |-> 120, innerHeight |-> 118]}

\* the positions isInRecycleBinZone is asked about: the centre of the canvas,
\* the two pointer positions and a point next to the bin at the first size
ZonePositions == {<<0, 0, 0>>, PointerM, PointerB, <<0 - 90, 0, 0>>}

\* the positions findNearestShape is asked about
QueryPositions == {<<20, 0, 0>>, <<21, 0, 0>>, <<10, 0, 0>>, <<80, 0, 0>>, <<20, 30, 0>>}

\* the application is running with some registry of shapes; no call yet
InitCallsWith(versions, registries) ==
    /\ version \in versions
    /\ isApplicationRunning = TRUE
    /\ shapes \in registries
    /\ objs = [i \in CallIds |-> IF i \in Range(shapes) THEN CallObj(i) ELSE FreeObj]
    /\ currentShape = NullShape
    /\ isPinching = FALSE
    /\ originalDistance = NullDistance
    /\ selectedShape = NullShape
    /\ shapeCreatedThisPinch = FALSE
    /\ lastShapeCreationTime = 0
    /\ binActive = FALSE
    /\ window = Viewport
    /\ camera = [aspect |-> Ratio(Viewport.innerWidth, Viewport.innerHeight)]
    /\ now = StartTime
    /\ event = NoEvent
    /\ sessionCreated = 0
    /\ initPhase = "done"
    /\ listeners = IF version = "main" THEN {"resize", "beforeunload"} ELSE {}
    /\ rafAnimate = FALSE
    /\ effects = {}
    /\ rendered = FALSE
    /\ removed = {}
    /\ offlineControls = 0
    /\ mouseControls = <<>>
    /\ scenario = "none"
    /\ refused = FALSE
    /\ call = NoCall
    /\ returned = NoValue
    /\ BootInit

InitCalls == InitCallsWith({"part000"}, Registries(CallIds))

\* what a call of a helper leaves alone, the registry apart
callFrame == <<bootVars, version, isApplicationRunning, objs, currentShape, isPinching,
               originalDistance, selectedShape, shapeCreatedThisPinch,
               lastShapeCreationTime, binActive, window, camera, now, event,
               sessionCreated, initPhase, listeners, rafAnimate, effects,
               rendered, removed, offlineControls, mouseControls, scenario,
               refused>>

CallIsPinch ==
    \E landmarks \in PinchCallHands :
        /\ call' = [NoCall EXCEPT !.fn = "isPinch", !.hands = <<landmarks>>]
        /\ returned' = [NoValue EXCEPT !.truth = isPinch(landmarks)]
        /\ UNCHANGED <<shapes, callFrame>>

CallAreIndexFingersClose ==
    \E pair \in CloseCallPairs :
        /\ call' = [NoCall EXCEPT !.fn = "areIndexFingersClose", !.hands = pair]
        /\ returned' = [NoValue EXCEPT !.truth = areIndexFingersClose(pair[1], pair[2])]
        /\ UNCHANGED <<shapes, callFrame>>

CallFindNearestShape ==
    \E position \in QueryPositions :
        /\ call' = [NoCall EXCEPT !.fn = "findNearestShape", !.position = position]
        /\ returned' = [NoValue EXCEPT !.shape = findNearestShape(State, position)]
        /\ UNCHANGED <<shapes, callFrame>>

\* the removal of a shape from the registry, as the handlers do it; the
\* statement returns nothing: truth records whether the shape was there
CallRemoveShape ==
    \E shape \in CallIds :
        /\ call' = [NoCall EXCEPT !.fn = "removeShape", !.shape = shape]
        /\ returned' = [NoValue EXCEPT !.truth = shape \in Range(shapes)]
        /\ shapes' = removeShape(State, shape).shapes
        /\ UNCHANGED callFrame

CallIsInRecycleBinZone ==
    \E position \in ZonePositions :
        /\ call' = [NoCall EXCEPT !.fn = "isInRecycleBinZone", !.position = position]
        /\ returned' = [NoValue EXCEPT !.truth = isInRecycleBinZone(State, position)]
        /\ UNCHANGED <<shapes, callFrame>>

\* createRandomShape(position), called as the mousedown listener and the
\* two-hand branch of handleHandResults call it
CallCreateRandomShape ==
    \E position \in Pointers :
      \E c \in {createRandomShape(State, position)} :
        /\ ~c.st.full
        /\ call' = [NoCall EXCEPT !.fn = "createRandomShape", !.position = position]
        /\ returned' = [NoValue EXCEPT !.shape = c.created]
        /\ shapes' = c.st.shapes
        /\ objs' = c.st.objs
        /\ effects' = c.st.effects
        /\ UNCHANGED <<bootVars, version, isApplicationRunning, currentShape, isPinching,
                       originalDistance, selectedShape, shapeCreatedThisPinch,
                       lastShapeCreationTime, binActive, window, camera, now,
                       event, sessionCreated, initPhase, listeners, rafAnimate,
                       rendered, removed, offlineControls, mouseControls,
                       scenario, refused>>

\* the user resizes the browser window; handleWindowResize runs if it is
\* registered as the resize listener and brings camera.aspect up to date.
\* No helper is called.
WindowResize ==
    \E size \in Viewports \ {window} :
        /\ window' = size
        /\ camera' = IF "resize" \in listeners
                      THEN [aspect |-> Ratio(size.innerWidth, size.innerHeight)]
                      ELSE camera
        /\ event' = [op |-> "resize", results |-> NoList, mouse |-> NoMouse]
        /\ call' = NoCall
        /\ returned' = NoValue
        /\ UNCHANGED <<bootVars, version, isApplicationRunning, sceneVars, now,
                       sessionCreated, initPhase, listeners, rafAnimate,
                       rendered, removed, offlineControls, mouseControls,
                       scenario, refused>>

NextCalls ==
    CallIsPinch \/ CallAreIndexFingersClose \/ CallFindNearestShape \/ CallRemoveShape
        \/ CallCreateRandomShape

SpecCalls == InitCalls /\ [][NextCalls]_vars

\* calls of isInRecycleBinZone between resizes of the window, in either build
InitZone == InitCallsWith({"part000", "main"}, Registries(Ids))

NextZone == CallIsInRecycleBinZone \/ WindowResize

SpecZone == InitZone /\ [][NextZone]_vars

\* frames of the behaviours with the render loop and the teardown
LifeFrames ==
    {Results(<<>>),
     Results(<<PinchAt(TipM[1], TipM[2])>>),
     Results(<<PinchAt(TipB[1], TipB[2])>>),
     Results(TwoPinch(10))}

LifeHandFrame == HandFrameFrom(LifeFrames)

\* initialization, hand tracking, the animation frames and the teardown, in
\* either build
InitLife == InitFor("part000") \/ InitFor("main")

NextLife ==
    initThree \/ initComplete \/ cleanup \/ Tick \/ LifeHandFrame \/ AnimationFrame

SpecLife == InitLife /\ [][NextLife]_vars

\* the browser runs a callback registered with requestAnimationFrame in the
\* next frame
SpecLifeFair == SpecLife /\ WF_vars(AnimationFrame)

Next == initThree \/ initComplete \/ Tick \/ HandFrame

Spec == Init /\ [][Next]_vars
SpecMain == InitMain /\ [][Next]_vars

-----------------------------------------------------------------------------
(* The initialization chain of src/unnamed/part_000 after initThree, and the
   frame callback of the camera *)

\* if (window.frameErrorCount > 30)
FrameErrorLimit == 30

\* bound of the model: failures in a row that are counted
MaxFailures == 32

\* what the boot actions leave alone, the event apart
bootFrame == <<version, sceneVars, window, camera, now, sessionCreated,
               initPhase, listeners, rafAnimate, rendered, removed, scenario,
               refused, call, returned>>

BootEvent(op) == event' = [op |-> op, results |-> NoList, mouse |-> NoMouse]

\* a call of enableOfflineMode from the initialization chain or from the frame
\* callback: the click handlers are added and setupMouseControls runs
enableOfflineModeCall ==
    /\ offlineControls < MaxControls
    /\ offlineControls' = offlineControls + 1
    /\ mouseControls' = IF initPhase = "loaded" THEN mouseControls
                        ELSE Append(mouseControls, NewControls)

\* continueInitialization calls initMediaPipeHands after initThree; the
\* function runs up to  await hands.initialize()
initMediaPipeHands ==
    /\ initPhase = "three"
    /\ handsInit = "idle"
    /\ handsInit' = "primary"
    /\ BootEvent("initMediaPipeHands")
    /\ UNCHANGED <<handsInitialized, windowHands, cameraVars, frameVars,
                   isApplicationRunning, offlineControls, mouseControls,
                   bootFrame>>

\* hands.initialize() resolves: window.hands = hands; handsInitialized = true
primaryInitialized ==
    /\ handsInit = "primary"
    /\ handsInit' = "done"
    /\ windowHands' = "primary"
    /\ handsInitialized' = TRUE
    /\ BootEvent("primaryInitialized")
    /\ UNCHANGED <<cameraVars, frameVars, isApplicationRunning,
                   offlineControls, mouseControls, bootFrame>>

\* hands.initialize() rejects: the catch handler makes fallbackHands and
\* returns fallbackHands.initialize().then(...)
primaryFailed ==
    /\ handsInit = "primary"
    /\ handsInit' = "alternate"
    /\ BootEvent("primaryFailed")
    /\ UNCHANGED <<handsInitialized, windowHands, cameraVars, frameVars,
                   isApplicationRunning, offlineControls, mouseControls,
                   bootFrame>>

\* the catch block of initMediaPipeHands: enableOfflineMode() and a rejected
\* promise
handsCatch ==
    /\ handsInit' = "rejected"
    /\ enableOfflineModeCall
    /\ UNCHANGED <<handsInitialized, windowHands, cameraVars, frameVars,
                   isApplicationRunning, bootFrame>>

\* fallbackHands.initialize() resolves: the then callback runs
\* hands = fallbackHands, and hands is a const, so the assignment throws a
\* TypeError; the promise awaited rejects and the catch block runs
alternateInitialized ==
    /\ handsInit = "alternate"
    /\ BootEvent("alternateInitialized")
    /\ handsCatch

\* fallbackHands.initialize() rejects as well
alternateFailed ==
    /\ handsInit = "alternate"
    /\ BootEvent("alternateFailed")
    /\ handsCatch

\* new Hands(...) or the test of navigator.mediaDevices throws
handsSetupThrows ==
    /\ initPhase = "three"
    /\ handsInit = "idle"
    /\ BootEvent("handsSetupThrows")
    /\ handsCatch

\* the catch handler continueInitialization puts on initMediaPipeHands():
\* enableOfflineMode() again, and the chain goes on
continueOffline ==
    /\ handsInit = "rejected"
    /\ handsInit' = "offline"
    /\ enableOfflineModeCall
    /\ BootEvent("continueOffline")
    /\ UNCHANGED <<handsInitialized, windowHands, cameraVars, frameVars,
                   isApplicationRunning, bootFrame>>

\* setupCameraStream(stream): the timeout is armed, video.srcObject and
\* video.onloadedmetadata are set
setupCameraStream(k) ==
    /\ streamCall' = k
    /\ metadataLoaded' = FALSE
    /\ UNCHANGED <<timedOut, frameLoops, handsVars, frameVars,
                   isApplicationRunning, offlineControls, mouseControls,
                   bootFrame>>

\* initCamera gets the preferred stream
cameraPreferred ==
    /\ handsInit \in {"done", "offline"}
    /\ cameraInit = "idle"
    /\ cameraInit' = "preferred"
    /\ BootEvent("cameraPreferred")
    /\ setupCameraStream(1)

\* getUserMedia with the preferred settings fails, or the preferred stream
\* has timed out, and getUserMedia({ video: true }) gives a stream
cameraBasic ==
    /\ \/ handsInit \in {"done", "offline"} /\ cameraInit = "idle"
       \/ cameraInit = "retry"
    /\ cameraInit' = "basic"
    /\ BootEvent("cameraBasic")
    /\ setupCameraStream(2)

\* the catch block of initCamera: enableOfflineMode() and a rejected promise
cameraCatch ==
    /\ cameraInit' = "rejected"
    /\ enableOfflineModeCall
    /\ UNCHANGED <<streamCall, metadataLoaded, frameLoops, handsVars,
                   frameVars, isApplicationRunning, bootFrame>>

\* no camera: the mediaDevices test or the second getUserMedia throws
cameraDenied ==
    /\ \/ handsInit \in {"done", "offline"} /\ cameraInit = "idle"
       \/ cameraInit = "retry"
    /\ BootEvent("cameraDenied")
    /\ UNCHANGED timedOut
    /\ cameraCatch

\* the 5 s timeout of the preferred stream rejects: initCamera asks for the
\* basic stream
preferredTimeout ==
    /\ cameraInit = "preferred"
    /\ cameraInit' = "retry"
    /\ timedOut' = timedOut \cup {streamCall}
    /\ BootEvent("metadataTimeout")
    /\ UNCHANGED <<streamCall, metadataLoaded, frameLoops, handsVars,
                   frameVars, isApplicationRunning, offlineControls,
                   mouseControls, bootFrame>>

\* the 5 s timeout of the basic stream rejects: initCamera gives up
basicTimeout ==
    /\ cameraInit = "basic"
    /\ timedOut' = timedOut \cup {streamCall}
    /\ BootEvent("metadataTimeout")
    /\ cameraCatch

\* the video fires loadedmetadata and the handler installed last runs:
\* clearTimeout, new Camera(...), cameraInstance.start(), which starts the
\* frame loop, or fails, and then setupFallbackRendering runs
\* setupMouseControls; either way resolve() is called, which settles the
\* promise unless the timeout has rejected it
loadedmetadata ==
    /\ streamCall > 0
    /\ ~metadataLoaded
    /\ metadataLoaded' = TRUE
    /\ \E started \in BOOLEAN :
          IF started
          THEN /\ frameLoops' = frameLoops + 1
               /\ UNCHANGED mouseControls
          ELSE /\ Len(mouseControls) <= MaxControls
               /\ mouseControls' = Append(mouseControls, NewControls)
               /\ UNCHANGED frameLoops
    /\ cameraInit' = IF streamCall \notin timedOut THEN "done" ELSE cameraInit
    /\ BootEvent("loadedmetadata")
    /\ UNCHANGED <<streamCall, timedOut, handsVars, frameVars,
                   isApplicationRunning, offlineControls, bootFrame>>

\* initCamera() has resolved: isApplicationRunning = true
bootComplete ==
    /\ cameraInit = "done"
    /\ initComplete

\* the last catch of continueInitialization: enableOfflineMode() again
continueCatch ==
    /\ cameraInit = "rejected"
    /\ cameraInit' = "failed"
    /\ enableOfflineModeCall
    /\ BootEvent("continueCatch")
    /\ UNCHANGED <<streamCall, metadataLoaded, timedOut, frameLoops,
                   handsVars, frameVars, isApplicationRunning, bootFrame>>

\* onFrame up to  await window.hands.send({ image: video })
frameCallback ==
    /\ frameLoops > 0
    /\ onFrame = "idle"
    /\ windowHands # "none"
    /\ isApplicationRunning
    /\ onFrame' = "sending"
    /\ BootEvent("send")
    /\ UNCHANGED <<frameErrorCount, failedInRow, handsVars, cameraVars,
                   isApplicationRunning, offlineControls, mouseControls,
                   bootFrame>>

\* the results the tracker delivers for the image sent
BootFrames == {Results(<<>>), Results(TwoPinch(10))}

\* the tracker calls onResults for the image sent
BootHandFrame ==
    /\ onFrame = "sending"
    /\ event.op = "send"
    /\ HandFrameFrom(BootFrames)

\* send() resolves: window.frameErrorCount = 0
sendResolved ==
    /\ onFrame = "sending"
    /\ onFrame' = "idle"
    /\ frameErrorCount' = 0
    /\ failedInRow' = 0
    /\ BootEvent("sendResolved")
    /\ UNCHANGED <<handsVars, cameraVars, isApplicationRunning,
                   offlineControls, mouseControls, bootFrame>>

\* send() rejects and the catch handler put on it runs: the counter goes up;
\* above the limit enableOfflineMode() is called and the handler throws, which
\* ends onFrame; otherwise the handler returns and the promise awaited is
\* fulfilled
sendRejected ==
    /\ onFrame = "sending"
    /\ failedInRow < MaxFailures
    /\ failedInRow' = failedInRow + 1
    /\ frameErrorCount' = frameErrorCount + 1
    /\ IF frameErrorCount + 1 > FrameErrorLimit
       THEN /\ enableOfflineModeCall
            /\ onFrame' = "idle"
       ELSE /\ onFrame' = "caught"
            /\ UNCHANGED <<offlineControls, mouseControls>>
    /\ BootEvent("sendRejected")
    /\ UNCHANGED <<handsVars, cameraVars, isApplicationRunning, bootFrame>>

\* onFrame goes on after the await that the catch handler fulfilled:
\* window.frameErrorCount = 0
sendCaught ==
    /\ onFrame = "caught"
    /\ onFrame' = "idle"
    /\ frameErrorCount' = 0
    /\ BootEvent("sendCaught")
    /\ UNCHANGED <<failedInRow, handsVars, cameraVars, isApplicationRunning,
                   offlineControls, mouseControls, bootFrame>>

NextBoot ==
    \/ initThree
    \/ initMediaPipeHands \/ primaryInitialized \/ primaryFailed
    \/ alternateInitialized \/ alternateFailed \/ handsSetupThrows
    \/ continueOffline
    \/ cameraPreferred \/ cameraBasic \/ cameraDenied
    \/ preferredTimeout \/ basicTimeout \/ loadedmetadata
    \/ bootComplete \/ continueCatch
    \/ frameCallback \/ BootHandFrame \/ sendResolved \/ sendRejected
    \/ sendCaught

SpecBoot == Init /\ [][NextBoot]_vars

-----------------------------------------------------------------------------
(* Vocabulary of the properties *)

\* the step just taken (in an action formula: the step being taken) is a call
\* of handleHandResults that got past the isApplicationRunning test
Processed(e) == e.op = "hand" /\ isApplicationRunning

\* midpoint of the two index tips, mapped to world coordinates
TipMidpoint(results) ==
    get3DCoords((results.hands[1].lm8[1] + results.hands[2].lm8[1]) \div 2,
                (results.hands[1].lm8[2] + results.hands[2].lm8[2]) \div 2)

\* the step appends exactly one handle to the registry
CreatesOne == Len(shapes') = Len(shapes) + 1 /\ SubSeq(shapes', 1, Len(shapes)) = shapes
NewShape == shapes'[Len(shapes')]

\* a handle is free, so the bound of the model does not stand in the way of a
\* creation
RoomLeft == \E i \in Ids : ~objs[i].live

-----------------------------------------------------------------------------
(* C1 *)

\* C1: selectedShape and currentShape are never both non-empty.
\* The code violates it: the two-hand branch never clears selectedShape.
C1_SelectedXorCurrent == ~(selectedShape # NullShape /\ currentShape # NullShape)

-----------------------------------------------------------------------------
(* C2 *)

\* C2: within one run of consecutive frames in which two hands are both
\* pinching, handleHandResults adds at most one shape to the registry.
C2_OneShapePerPinchSession == sessionCreated <= 1

\* a session that created its shape, is still held after the cooldown has
\* elapsed again, and has a free handle to create into
C2_Witness ==
    /\ event.op = "hand"
    /\ BothPinching(event.results)
    /\ areIndexFingersClose(event.results.hands[1], event.results.hands[2])
    /\ sessionCreated = 1
    /\ now - lastShapeCreationTime > shapeCreationCooldown
    /\ RoomLeft

-----------------------------------------------------------------------------
(* C3 *)

C3_Start(e) == Processed(e) /\ TwoHandPinch(e.results) /\ ~isPinching

C3_Effects(e) ==
    /\ lastShapeCreationTime' = now
    /\ shapeCreatedThisPinch'
    /\ originalDistance' = TipDistance(e.results)
    /\ currentShape' = NewShape

\* C3 as stated: on the first frame of a two-hand pinch a shape is created iff
\* the index tips are close, none was created this pinch and AT LEAST 1000 ms
\* have elapsed since lastShapeCreationTime; the creation updates the state.
C3_AsStated ==
    [][C3_Start(event') =>
         /\ CreatesOne <=>
               /\ areIndexFingersClose(event'.results.hands[1], event'.results.hands[2])
               /\ ~shapeCreatedThisPinch
               /\ now - lastShapeCreationTime >= shapeCreationCooldown
         /\ CreatesOne => C3_Effects(event')]_vars

\* C3 amended: ... and MORE THAN 1000 ms have elapsed since
\* lastShapeCreationTime; otherwise the registry is unchanged.
C3_GestureStartCreation ==
    [][C3_Start(event') =>
         /\ CreatesOne <=>
               /\ areIndexFingersClose(event'.results.hands[1], event'.results.hands[2])
               /\ ~shapeCreatedThisPinch
               /\ now - lastShapeCreationTime > shapeCreationCooldown
         /\ CreatesOne => C3_Effects(event')
         /\ ~CreatesOne => shapes' = shapes]_vars

\* a second shape has just been created at the start of a two-hand pinch
C3_Witness ==
    /\ Processed(event)
    /\ TwoHandPinch(event.results)
    /\ Len(shapes) = 2
    /\ currentShape = shapes[2]
    /\ lastShapeCreationTime = now
    /\ shapeCreatedThisPinch
    /\ originalDistance = TipDistance(event.results)
    /\ objs[currentShape].position = TipMidpoint(event.results)

-----------------------------------------------------------------------------
(* C4 *)

C4_NewPinchAfter(e, elapsed) ==
    /\ C3_Start(e)
    /\ areIndexFingersClose(e.results.hands[1], e.results.hands[2])
    /\ lastShapeCreationTime >= StartTime      \* a pinch has created a shape
    /\ now - lastShapeCreationTime = elapsed

\* C4: a new two-hand pinch with close tips 999 ms after a creation creates
\* nothing; one 1001 ms after it creates exactly one shape.
C4_Cooldown ==
    [][/\ C4_NewPinchAfter(event', shapeCreationCooldown - 1) => shapes' = shapes
       /\ C4_NewPinchAfter(event', shapeCreationCooldown + 1) => CreatesOne]_vars

\* the second shape was created 1001 ms after the first
C4_Witness ==
    /\ Processed(event)
    /\ TwoHandPinch(event.results)
    /\ Len(shapes) = 2
    /\ currentShape = shapes[2]
    /\ lastShapeCreationTime = StartTime + shapeCreationCooldown + 1

-----------------------------------------------------------------------------
(* C5 *)

\* C5: after a processed frame that is not a qualifying two-hand pinch the
\* two-hand state is reset.  The part_000 build violates it: a two-hand frame
\* with an incomplete hand returns before the reset.
C5_ResetAfterOtherFrame ==
    (Processed(event) /\ event.results.hasList /\ ~TwoHandPinch(event.results))
        => /\ ~isPinching
           /\ ~shapeCreatedThisPinch
           /\ originalDistance = NullDistance
           /\ currentShape = NullShape

-----------------------------------------------------------------------------
(* C6 *)

\* C6: a frame in which two hands are both pinching ends with isPinching true
\* and the recycle indicator inactive, and does no single-hand processing:
\* selectedShape is unchanged, no shape leaves the registry, no position
\* changes and no scale other than that of currentShape changes.
C6_PinchFrameOnly ==
    [][(Processed(event') /\ TwoHandPinch(event'.results)) =>
         /\ isPinching'
         /\ ~binActive'
         /\ selectedShape' = selectedShape
         /\ SubSeq(shapes', 1, Len(shapes)) = shapes
         /\ \A i \in Range(shapes) :
               /\ objs'[i].position = objs[i].position
               /\ objs'[i].wire = objs[i].wire
               /\ i # currentShape' => objs'[i].scale = objs[i].scale]_vars

\* a two-hand pinch frame arrived while a shape was held over the recycle bin
C6_Witness ==
    /\ Processed(event)
    /\ TwoHandPinch(event.results)
    /\ selectedShape # NullShape
    /\ objs[selectedShape].wire = "red"
    /\ isPinching
    /\ ~binActive

-----------------------------------------------------------------------------
(* C7 *)

C7_Continuing(e) ==
    /\ Processed(e)
    /\ TwoHandPinch(e.results)
    /\ isPinching
    /\ currentShape # NullShape
    /\ originalDistance # NullDistance
    /\ originalDistance # 0

\* C7: on a continuing frame of a two-hand pinch with a currentShape and an
\* originalDistance (a non-zero one: the ratio is a number) the scale of the
\* shape becomes distance / originalDistance, whatever it was before, and
\* originalDistance keeps its value.
C7_LiveScale ==
    [][C7_Continuing(event') =>
         /\ objs'[currentShape].scale[1] * originalDistance
               = objs'[currentShape].scale[2] * TipDistance(event'.results)
         /\ objs'[currentShape].scale[2] > 0
         /\ originalDistance' = originalDistance
         /\ currentShape' = currentShape]_vars

\* the tips are 1.5 times as far apart as at the creation: the scale is 3/2
C7_Witness ==
    /\ Processed(event)
    /\ TwoHandPinch(event.results)
    /\ currentShape # NullShape
    /\ originalDistance = 20
    /\ TipDistance(event.results) = 30
    /\ objs[currentShape].scale = <<3, 2>>

-----------------------------------------------------------------------------
(* C8 *)

\* C8: during two-hand scaling a frame whose inter-hand distance is zero
\* (the baseline or the current one) leaves the scale of the shape as it was.
\* The code violates it: a current distance of zero sets the scale to 0.
C8_ZeroDistanceKeepsScale ==
    [][(/\ Processed(event')
        /\ TwoHandPinch(event'.results)
        /\ isPinching
        /\ currentShape # NullShape
        /\ originalDistance # NullDistance
        /\ (originalDistance = 0 \/ TipDistance(event'.results) = 0))
         => objs'[currentShape].scale = objs[currentShape].scale]_vars

-----------------------------------------------------------------------------
(* C9 *)

DistSq(i, position) == SumSq3(objs[i].position, position)

\* x is the registry shape nearest to position within the radius, or none
NearestWithin(x, position) ==
    IF \E i \in Range(shapes) : DistSq(i, position) < NearestRadius * NearestRadius
    THEN /\ x \in Range(shapes)
         /\ DistSq(x, position) < NearestRadius * NearestRadius
         /\ \A j \in Range(shapes) : DistSq(x, position) <= DistSq(j, position)
    ELSE x = NullShape

\* C9: in a frame with one pinching hand, an empty selection becomes the
\* nearest registry shape within the radius (or stays empty), an existing
\* selection is kept, and a selected shape ends at the mapped index tip,
\* armed (and the recycle indicator active) iff that position is in the
\* recycle zone.
C9_OneHandPinch ==
    [][(Processed(event') /\ OneHand(event'.results) /\ isPinch(event'.results.hands[1])) =>
         LET position == TipPosition(event'.results)
         IN /\ selectedShape = NullShape => NearestWithin(selectedShape', position)
            /\ selectedShape # NullShape => selectedShape' = selectedShape
            /\ selectedShape' # NullShape =>
                  /\ objs'[selectedShape'].position = position
                  /\ objs'[selectedShape'].wire = "red" <=> InZoneNow(position)
                  /\ binActive' <=> InZoneNow(position)]_vars

\* the shape held is the first of two, lies over the recycle bin and is armed
C9_Witness ==
    /\ Processed(event)
    /\ OneHand(event.results)
    /\ isPinch(event.results.hands[1])
    /\ Len(shapes) = 2
    /\ selectedShape = shapes[1]
    /\ objs[selectedShape].position = TipPosition(event.results)
    /\ objs[selectedShape].wire = "red"
    /\ binActive

-----------------------------------------------------------------------------
(* C10 *)

-----------------------------------------------------------------------------
(* C11 *)

\* C11: a processed frame with an empty hand list leaves nothing selected and
\* the recycle indicator inactive; the shape that was selected leaves the
\* registry iff it was in the recycle zone, and every other shape stays, in
\* its place.
C11_NoHands ==
    [][(Processed(event') /\ NoHandsFrame(event'.results)) =>
         LET sel == selectedShape
             inZone == sel # NullShape /\ InZoneNow(objs[sel].position)
         IN /\ selectedShape' = NullShape
            /\ ~binActive'
            /\ inZone => shapes' = SeqRemove(shapes, sel)
            /\ inZone /\ sel \in Range(shapes) => sel \notin Range(shapes')
            /\ ~inZone => shapes' = shapes]_vars

\* tracking was lost while a shape was held over the recycle bin: the frame
\* without hands took it out of the registry and left the other shape
C11_Witness ==
    /\ Processed(event)
    /\ NoHandsFrame(event.results)
    /\ removed # {}
    /\ Len(shapes) = 1
    /\ selectedShape = NullShape
    /\ ~binActive

-----------------------------------------------------------------------------
(* C12 *)

\* the shapes some handler holds: selectedShape, currentShape and the mouse
\* selections
HeldShapes ==
    ({selectedShape, currentShape} \cup MouseHeld(mouseControls)) \ {NullShape}

\* C12: under any interleaving of tracking frames, mouse events and the
\* Clear All Shapes control every held shape is in the registry, and a shape
\* that has left the registry is not moved, scaled or highlighted again.
\* The code violates it: mouseup and Clear All take a shape out of the
\* registry that selectedShape or currentShape still holds, and the next
\* frame moves, scales or highlights it.
C12_HeldShapesInRegistry ==
    /\ [](HeldShapes \subseteq Range(shapes))
    /\ [][\A i \in Ids :
             (objs[i].live /\ i \notin Range(shapes) /\ objs'[i].live)
                 => objs'[i] = objs[i]]_vars

-----------------------------------------------------------------------------
(* C13 *)

\* step (1): the creating frame leaves exactly one shape, at the midpoint
C13_Created ==
    scenario' = "created" /\ event'.op = "hand" =>
        /\ Len(shapes') = 1
        /\ objs'[shapes'[1]].position = TipMidpoint(event'.results)
        /\ objs'[shapes'[1]].scale = <<1, 1>>

\* step (2): the scale is distance / originalDistance, larger than the 1 of
\* the creation, and the registry still holds the one shape
C13_Scaled ==
    /\ shapes' = shapes
    /\ Len(shapes') = 1
    /\ objs'[shapes[1]].scale[1] * originalDistance
          = objs'[shapes[1]].scale[2] * TipDistance(event'.results)
    /\ objs'[shapes[1]].scale[1] > objs'[shapes[1]].scale[2]

\* step (3): the shape is selected and at the fingertip
C13_Dragged ==
    scenario' \in {"dragged", "over bin"} /\ event'.op = "hand" =>
        /\ shapes' = shapes
        /\ Len(shapes') = 1
        /\ selectedShape' = shapes[1]
        /\ objs'[shapes[1]].position = TipPosition(event'.results)

\* step (4): the registry is empty and nothing is selected
C13_Recycled ==
    scenario' = "recycled" /\ event'.op = "hand" =>
        /\ shapes' = <<>>
        /\ selectedShape' = NullShape

\* C13 as stated: the end-to-end frame sequence.  (1) From an empty registry
\* with the cooldown elapsed, a two-hand pinch with close tips leaves exactly
\* one shape, at the mapped midpoint.  (2) While the pinch is held with the
\* hands farther apart, the scale of that shape grows in proportion to the
\* distance and the registry still holds the one shape.  (3) A one-hand
\* pinch near the shape selects it and the shape follows the fingertip.
\* (4) Opening the hand over the recycle zone leaves the registry empty and
\* nothing selected.
C13_AsStated ==
    [][/\ C13_Created
       /\ (scenario' = "scaled" /\ event'.op = "hand" /\ TwoHandPinch(event'.results))
             => C13_Scaled
       /\ C13_Dragged
       /\ C13_Recycled]_vars

\* C13 amended: in (2) the scale grows in proportion to the distance
\* provided the two index tips were not at the same point when the shape was
\* created (originalDistance is not zero); if they were, the scale stays 1.
C13_EndToEnd ==
    [][/\ C13_Created
       /\ (scenario' = "scaled" /\ event'.op = "hand" /\ TwoHandPinch(event'.results))
             => IF originalDistance # 0 THEN C13_Scaled
                ELSE /\ shapes' = shapes
                     /\ objs'[shapes[1]].scale = <<1, 1>>
       /\ C13_Dragged
       /\ C13_Recycled]_vars

\* the scenario was played to its end with a shape that had been scaled
C13_Witness ==
    /\ scenario = "recycled"
    /\ event.op = "hand"
    /\ shapes = <<>>
    /\ selectedShape = NullShape
    /\ removed # {}

-----------------------------------------------------------------------------
(* C14 *)

\* C14: a tracking result delivered while isApplicationRunning is false
\* (before the initialization has completed, or after cleanup) is ignored:
\* the registry, the shapes and every gesture variable are unchanged.
C14_IgnoredWhileStopped ==
    [][(event'.op = "hand" /\ ~isApplicationRunning) =>
         UNCHANGED <<shapes, objs, selectedShape, currentShape, isPinching,
                     shapeCreatedThisPinch, originalDistance,
                     lastShapeCreationTime, binActive>>]_vars

\* cleanup has run: it removed the listeners initApp had registered
CleanedUp == version = "main" /\ initPhase # "loaded" /\ "beforeunload" \notin listeners

\* after the teardown a one-hand pinch arrived over the shape in the
\* registry, and the shape is neither selected nor moved
C14_Witness ==
    /\ event.op = "hand"
    /\ ~isApplicationRunning
    /\ CleanedUp
    /\ OneHand(event.results)
    /\ isPinch(event.results.hands[1])
    /\ Len(shapes) = 1
    /\ objs[shapes[1]].position = TipPosition(event.results)
    /\ selectedShape = NullShape

-----------------------------------------------------------------------------
(* C15 *)

-----------------------------------------------------------------------------
(* C16 *)

\* C16: once the initialization has completed the render tick is active
\* until cleanup runs: a call of animate is scheduled for the next animation
\* frame.  The code violates it: the only call of animate is the one in
\* initThree, made while isApplicationRunning is still false, and it returns
\* without scheduling anything.
C16_RenderLoopActive ==
    (initPhase = "done" /\ isApplicationRunning /\ ~CleanedUp) => rafAnimate

-----------------------------------------------------------------------------
(* C17 *)

\* C17: isPinch(hand) is true iff landmarks 4 and 8 are both there and their
\* distance in three dimensions is strictly below 0.06; for a missing hand
\* or landmark it is false; the call changes no state.
C17_IsPinch ==
    [][call'.fn = "isPinch" =>
         LET hand == call'.hands[1]
         IN /\ returned'.truth <=>
                  /\ hand.present /\ hand.has4 /\ hand.has8
                  /\ SumSq3(hand.lm4, hand.lm8) < PinchThreshold * PinchThreshold
            /\ UNCHANGED <<shapes, callFrame>>]_vars

\* thumb and index tip exactly 0.06 apart, the depth included: no pinch
C17_Witness ==
    /\ call.fn = "isPinch"
    /\ call.hands[1].has4 /\ call.hands[1].has8
    /\ call.hands[1].lm4[3] # call.hands[1].lm8[3]
    /\ SumSq3(call.hands[1].lm4, call.hands[1].lm8) = PinchThreshold * PinchThreshold
    /\ ~returned.truth

-----------------------------------------------------------------------------
(* C18 *)

\* C18: areIndexFingersClose(a, b) is true iff both hands have landmark 8
\* and the distance of the two landmarks 8 in x and y alone is strictly
\* below 0.12; a missing hand or landmark gives false.
C18_IndexFingersClose ==
    [][call'.fn = "areIndexFingersClose" =>
         LET a == call'.hands[1]
             b == call'.hands[2]
         IN returned'.truth <=>
               /\ a.present /\ b.present /\ a.has8 /\ b.has8
               /\ SumSq2(a.lm8, b.lm8) < CloseThreshold * CloseThreshold]_vars

\* tips that are close in x and y and far apart in depth are close
C18_Witness ==
    /\ call.fn = "areIndexFingersClose"
    /\ returned.truth
    /\ SumSq2(call.hands[1].lm8, call.hands[2].lm8) = 569
    /\ SumSq3(call.hands[1].lm8, call.hands[2].lm8) > CloseThreshold * CloseThreshold

-----------------------------------------------------------------------------
(* C19 *)

\* place of a shape in the registry
RegistryIndex(x) == CHOOSE k \in DOMAIN shapes : shapes[k] = x

\* C19: findNearestShape(position) is none for an empty registry; else it is
\* the registry shape at the least distance from position if that distance
\* is strictly below 1.5, the first inserted of several at that distance,
\* and none if no shape is that near; it is never a shape outside the
\* registry.
C19_FindNearestShape ==
    [][call'.fn = "findNearestShape" =>
         LET x == returned'.shape
             position == call'.position
             within == {i \in Range(shapes) :
                            DistSq(i, position) < NearestRadius * NearestRadius}
         IN /\ shapes = <<>> => x = NullShape
            /\ within = {} => x = NullShape
            /\ within # {} =>
                  /\ x \in within
                  /\ \A j \in Range(shapes) :
                        /\ DistSq(x, position) <= DistSq(j, position)
                        /\ DistSq(x, position) = DistSq(j, position)
                              => RegistryIndex(x) <= RegistryIndex(j)]_vars

\* two shapes at the same distance, a third exactly 1.5 away: the one
\* inserted first of the two is returned, though its handle is the larger
C19_Witness ==
    /\ call.fn = "findNearestShape"
    /\ Len(shapes) = 3
    /\ returned.shape = shapes[1]
    /\ DistSq(shapes[1], call.position) = DistSq(shapes[2], call.position)
    /\ DistSq(shapes[3], call.position) = NearestRadius * NearestRadius
    /\ shapes[1] > shapes[2]

-----------------------------------------------------------------------------
(* C20 *)

\* C20: removing a shape that is not in the registry leaves the registry as
\* it is; removing one that is there takes out exactly that shape and keeps
\* the others in their order.
C20_RemoveIdempotent ==
    [][call'.fn = "removeShape" =>
         LET x == call'.shape
         IN IF x \in Range(shapes)
            THEN LET k == RegistryIndex(x)
                 IN shapes' = SubSeq(shapes, 1, k - 1) \o SubSeq(shapes, k + 1, Len(shapes))
            ELSE shapes' = shapes]_vars

\* a shape was removed a second time: the two that are left stayed
C20_Witness ==
    /\ call.fn = "removeShape"
    /\ ~returned.truth
    /\ Len(shapes) = 2

-----------------------------------------------------------------------------
(* C21 *)

\* the screen position of the projection of position, with the camera as it
\* is and the window W x H as it is: vector.x is 100 x / (7673 aspect) and
\* vector.y is 100 y / 7673 for a point <<x, y, 0>> in units of 1/20.
\* ScreenXIn(position, lo, hi): lo <= screenX <= hi,
\* ScreenYIn(position, lo, hi): lo <= screenY <= hi, cleared of fractions.
ScreenXIn(position, lo, hi) ==
    LET W == window.innerWidth
        d == 2 * TanNum * camera.aspect[1]
        n == W * (TanNum * camera.aspect[1] + 100 * position[1] * camera.aspect[2])
    IN lo * d <= n /\ n <= hi * d

ScreenYIn(position, lo, hi) ==
    LET H == window.innerHeight
        d == 2 * TanNum
        n == H * (TanNum - 100 * position[2])
    IN lo * d <= n /\ n <= hi * d

\* C21: isInRecycleBinZone(p) is true iff, for the window size W x H at the
\* time of the call, W - screenX lies in [W - 220, W - 60] (that is, screenX
\* lies in [60, 220]) and screenY lies in [H - 220, H - 60], the bounds
\* included; after a change of the window size the rectangle of the new size
\* is the one used.
C21_RecycleBinZone ==
    [][call'.fn = "isInRecycleBinZone" =>
         (returned'.truth <=>
             /\ ScreenXIn(call'.position, 60, 220)
             /\ ScreenYIn(call'.position, window.innerHeight - 220,
                                          window.innerHeight - 60))]_vars

\* after a resize to 440 x 440 the centre of the canvas lies on the corner of
\* the bin rectangle and is in the zone; at the size of the page load it
\* was not
C21_Witness ==
    /\ call.fn = "isInRecycleBinZone"
    /\ returned.truth
    /\ call.position = <<0, 0, 0>>
    /\ window.innerWidth = 440
    /\ window.innerHeight = 440
    /\ ~isInRecycleBinZone([window |-> Viewport, camera |-> camera], call.position)

-----------------------------------------------------------------------------
(* C22 *)

\* C22: a successful creation appends exactly one new shape at the end of
\* the registry, at the requested position, with scale 1 and the white
\* wireframe, and returns that shape; no shape that was in the registry
\* changes its position, its scale or its place in the order.
C22_Creation ==
    [][call'.fn = "createRandomShape" =>
         /\ CreatesOne
         /\ NewShape \notin Range(shapes)
         /\ returned'.shape = NewShape
         /\ objs'[NewShape].position = call'.position
         /\ objs'[NewShape].scale = <<1, 1>>
         /\ objs'[NewShape].wire = "white"
         /\ \A i \in Range(shapes) : objs'[i] = objs[i]]_vars

\* the third shape of a registry was created, behind two of which the first
\* has a scale other than 1
C22_Witness ==
    /\ call.fn = "createRandomShape"
    /\ Len(shapes) = 3
    /\ returned.shape = shapes[3]
    /\ objs[shapes[3]].position = call.position
    /\ objs[shapes[1]].scale # <<1, 1>>

-----------------------------------------------------------------------------
(* C23 *)

\* the registry shapes under the pointer of a mouse event
UnderPointer(ev) == {i \in Range(shapes) : objs[i].position = ev.pointer}

\* the variables of the hand gestures
gestureVars == <<currentShape, selectedShape, isPinching, originalDistance,
                 shapeCreatedThisPinch, lastShapeCreationTime>>

\* C23: a mouse press on a shape selects that shape and starts a drag and
\* creates nothing; a press of the left button on empty space creates exactly
\* one shape, at the point under the pointer, whatever the time since the
\* last creation; either way lastShapeCreationTime and the state of the hand
\* gestures are unchanged.
C23_MousePress ==
    [][event'.op = "mousedown" =>
         LET ev == event'.mouse
         IN /\ UnderPointer(ev) # {} =>
                  /\ shapes' = shapes
                  /\ \A k \in DOMAIN mouseControls' :
                        /\ mouseControls'[k].isDragging
                        /\ mouseControls'[k].selectedViaMouseShape \in UnderPointer(ev)
                        /\ ev.front \in UnderPointer(ev) =>
                              mouseControls'[k].selectedViaMouseShape = ev.front
            /\ (UnderPointer(ev) = {} /\ ev.flag) =>
                  /\ CreatesOne
                  /\ objs'[NewShape].position = ev.pointer
            /\ UNCHANGED gestureVars]_vars

\* a two-hand pinch has just created a shape and is still held; at the same
\* clock reading a left press on empty space created a second shape
C23_Witness ==
    /\ event.op = "mousedown"
    /\ event.mouse.flag
    /\ Len(shapes) = 2
    /\ objs[shapes[2]].position = event.mouse.pointer
    /\ objs[shapes[1]].position # event.mouse.pointer
    /\ \A k \in DOMAIN mouseControls : ~mouseControls[k].isDragging
    /\ lastShapeCreationTime = now
    /\ isPinching
    /\ currentShape = shapes[1]

-----------------------------------------------------------------------------
(* C24 *)

\* the shapes the closures of setupMouseControls are dragging
Dragged(cs) ==
    {cs[k].selectedViaMouseShape :
        k \in {j \in DOMAIN cs : cs[j].isDragging /\ cs[j].selectedViaMouseShape # NullShape}}

\* C24: when the mouse button is released while a shape is dragged, the
\* shape leaves the registry iff it is in the recycle zone; if it is not, it
\* stays where it was in the registry and has its white wireframe again;
\* no other shape leaves the registry and the order is kept; either
\* way no shape is selected by the mouse, no drag is in progress and the
\* recycle indicator is inactive afterwards.
C24_MouseRelease ==
    [][(event'.op = "mouseup" /\ Dragged(mouseControls) # {}) =>
         /\ \A sel \in Dragged(mouseControls) :
               IF InZoneNow(objs[sel].position)
               THEN sel \notin Range(shapes')
               ELSE /\ sel \in Range(shapes) => sel \in Range(shapes')
                    /\ objs'[sel].wire = "white"
         /\ \A i \in Range(shapes) \ Dragged(mouseControls) : i \in Range(shapes')
         /\ \E keep \in SUBSET Range(shapes) :
               shapes' = SelectSeq(shapes, LAMBDA i : i \in keep)
         /\ \A k \in DOMAIN mouseControls' : mouseControls'[k] = NewControls
         /\ ~binActive']_vars

\* of two shapes the one dragged over the recycle bin was released there:
\* the other is left, nothing is selected and the indicator is off
C24_Witness ==
    /\ event.op = "mouseup"
    /\ removed # {}
    /\ Len(shapes) = 1
    /\ \A k \in DOMAIN mouseControls : mouseControls[k] = NewControls
    /\ ~binActive

-----------------------------------------------------------------------------
(* C25 *)

\* the scale a is the scale b times n / d
ScaledBy(a, b, n, d) == a[1] * b[2] * d = b[1] * a[2] * n

\* C25: a wheel event over a shape multiplies the scale of that shape by 0.9
\* (deltaY > 0) or by 1.1 (otherwise), once, whether or not a drag is in
\* progress, and changes neither the drag state nor the mouse selection nor
\* the registry; a wheel event over empty space changes nothing.
\* The code violates it: every call of setupMouseControls on the canvas adds
\* a wheel listener, enableOfflineMode is called twice when hand tracking or
\* the camera fails to initialize, and each listener scales the shape.
C25_WheelScale ==
    [][event'.op = "wheel" =>
         LET ev == event'.mouse
             under == UnderPointer(ev)
             shape == IF ev.front \in under THEN ev.front
                      ELSE CHOOSE i \in under : \A j \in under : i <= j
         IN /\ shapes' = shapes
            /\ mouseControls' = mouseControls
            /\ under = {} => objs' = objs
            /\ under # {} =>
                  /\ IF ev.flag THEN ScaledBy(objs'[shape].scale, objs[shape].scale, 9, 10)
                     ELSE ScaledBy(objs'[shape].scale, objs[shape].scale, 11, 10)
                  /\ \A i \in Range(shapes) \ {shape} : objs'[i] = objs[i]]_vars

-----------------------------------------------------------------------------
(* C26 *)

\* x is held by a handler and is not in the registry
Stale(x) == x # NullShape /\ x \notin Range(shapes)

\* C26: when handleHandResults moves, releases or scales a shape that is no
\* longer in the registry, and when the mouse releases one, the registry is
\* as it was and the handler does what it does otherwise: a frame without a
\* pinching hand leaves nothing selected and the recycle indicator inactive,
\* a release of the mouse leaves no drag and no mouse selection.
C26_RemovedShapeNoOp ==
    [][/\ (/\ Processed(event')
           /\ event'.results.hasList
           /\ ~TwoHandPinch(event'.results)
           /\ Stale(selectedShape)) =>
             /\ shapes' = shapes
             /\ NoHandsFrame(event'.results) =>
                   selectedShape' = NullShape /\ ~binActive'
             /\ (OneHand(event'.results) /\ ~isPinch(event'.results.hands[1])) =>
                   selectedShape' = NullShape /\ ~binActive'
             /\ (OneHand(event'.results) /\ isPinch(event'.results.hands[1])) =>
                   selectedShape' = selectedShape
       /\ (/\ Processed(event')
           /\ TwoHandPinch(event'.results)
           /\ isPinching
           /\ Stale(currentShape)) =>
             /\ shapes' = shapes
             /\ currentShape' = currentShape
       /\ (/\ event'.op = "mouseup"
           /\ Dragged(mouseControls) # {}
           /\ \A sel \in Dragged(mouseControls) : Stale(sel)) =>
             /\ shapes' = shapes
             /\ \A k \in DOMAIN mouseControls' : mouseControls'[k] = NewControls]_vars

\* the hand holds over the recycle bin a shape that is not in the registry
\* any more, while another shape is: the frame has moved the shape it holds
\* and armed it, and the registry still holds the other one
C26_Witness ==
    /\ Processed(event)
    /\ OneHand(event.results)
    /\ isPinch(event.results.hands[1])
    /\ Stale(selectedShape)
    /\ objs[selectedShape].position = TipPosition(event.results)
    /\ objs[selectedShape].wire = "red"
    /\ binActive
    /\ Len(shapes) = 1

-----------------------------------------------------------------------------
(* C27 *)

\* C27: a two-hand pinch creates a shape on its first frame or not at all:
\* no frame of a pinch that is going on creates a shape, and if the frame
\* that began the pinch created none, no later frame of the pinch changes
\* the scale of a shape either, close tips and an elapsed cooldown
\* notwithstanding.
C27_FirstFrameOnly ==
    [][(Processed(event') /\ TwoHandPinch(event'.results) /\ isPinching) =>
         /\ shapes' = shapes
         /\ refused =>
               /\ \A i \in Ids : objs'[i].scale = objs[i].scale
               /\ currentShape' = NullShape]_vars

\* a pinch that began with the tips apart is held with the tips close, the
\* cooldown has elapsed, a handle is free and a shape is there to be scaled:
\* nothing was created
C27_Witness ==
    /\ Processed(event)
    /\ TwoHandPinch(event.results)
    /\ refused
    /\ isPinching
    /\ areIndexFingersClose(event.results.hands[1], event.results.hands[2])
    /\ now - lastShapeCreationTime > shapeCreationCooldown
    /\ RoomLeft
    /\ shapes # <<>>
    /\ currentShape = NullShape

-----------------------------------------------------------------------------
(* C28 *)

\* a hand of the frame is pinching
SomeHandPinching(results) ==
    /\ results.hasList
    /\ \E k \in DOMAIN results.hands : isPinch(results.hands[k])

\* C28: handleHandResults takes a shape out of the registry only in a frame
\* in which no hand is pinching; in a frame in which a hand is pinching, a
\* frame of one pinching and one open hand included, no shape is removed.
\* The code violates it: the loop over the hands lets the pinching hand
\* select and move the shape and the open hand of the same frame release
\* it, into the recycle bin if that is where the pinching hand holds it.
C28_RemovalOnlyOnRelease ==
    [][(Processed(event') /\ SomeHandPinching(event'.results)) =>
         Range(shapes) \subseteq Range(shapes')]_vars

\* C29: after every call of handleHandResults, a current shape and a reference
\* distance exist only while shapeCreatedThisPinch is set, shapeCreatedThisPinch
\* is set only while isPinching is, and when isPinching is false the flag is
\* false and currentShape and originalDistance are none.
C29_GestureFlags ==
    event.op = "hand" =>
        /\ HasShape(currentShape) => shapeCreatedThisPinch
        /\ originalDistance # NullDistance => shapeCreatedThisPinch
        /\ shapeCreatedThisPinch => isPinching
        /\ ~isPinching =>
              /\ ~shapeCreatedThisPinch
              /\ currentShape = NullShape
              /\ originalDistance = NullDistance

\* a frame that is not a two-hand pinch has just ended a pinch that had
\* created a shape: the gesture state is back to none
C29_Witness ==
    /\ Processed(event)
    /\ ~BothPinching(event.results)
    /\ ~isPinching
    /\ lastShapeCreationTime > 0
    /\ shapes # <<>>

\* C30: one call of handleHandResults changes the registry by at most one
\* shape: it appends one (only in a frame of two pinching hands), or it
\* removes one (only in a frame that is not a two-hand pinch), never both.
C30_OneShapePerCall ==
    [][event'.op = "hand" =>
         LET added == Range(shapes') \ Range(shapes)
             gone == Range(shapes) \ Range(shapes')
         IN /\ Cardinality(added) + Cardinality(gone) <= 1
            /\ Len(shapes') = Len(shapes) + Cardinality(added) - Cardinality(gone)
            /\ added # {} => BothPinching(event'.results) /\ CreatesOne
            /\ gone # {} => ~BothPinching(event'.results)]_vars

\* a frame of two hands, one pinching and one open, has removed a shape while
\* another shape stays in the registry
C30_Witness ==
    /\ Processed(event)
    /\ Len(event.results.hands) = 2
    /\ removed # {}
    /\ shapes # <<>>

\* a non-empty hand list in which every hand lacks the index tip (landmarks[8])
OnlyIndexless(results) ==
    /\ results.hasList
    /\ Len(results.hands) > 0
    /\ \A k \in DOMAIN results.hands :
          results.hands[k].present /\ ~results.hands[k].has8

\* C31: a frame whose hands all lack the index tip leaves selectedShape, the
\* registry and the shapes of the registry as they were: no hand of it
\* selects, moves, releases or deletes.
C31_IndexlessHandsSkipped ==
    [][(Processed(event') /\ OnlyIndexless(event'.results)) =>
          /\ selectedShape' = selectedShape
          /\ shapes' = shapes
          /\ \A i \in Range(shapes) : objs'[i] = objs[i]]_vars

\* two hands without index tip have been processed while a shape is held over
\* the recycle zone
C31_Witness ==
    /\ Processed(event)
    /\ OnlyIndexless(event.results)
    /\ Len(event.results.hands) = 2
    /\ HasShape(selectedShape)
    /\ binActive

\* C32: in the part_000 handler a result without hand list leaves the gesture
\* variables, the selection, the registry, the shapes and the recycle
\* indicator as they were.
C32_NoListKeepsState ==
    [][(Processed(event') /\ ~event'.results.hasList /\ version = "part000") =>
          /\ UNCHANGED gestureVars
          /\ UNCHANGED <<shapes, objs, binActive>>]_vars

\* a result without hand list has been processed while a two-hand pinch that
\* created a shape is going on and a shape is selected
C32_Witness ==
    /\ Processed(event)
    /\ ~event.results.hasList
    /\ version = "part000"
    /\ isPinching
    /\ HasShape(currentShape)
    /\ HasShape(selectedShape)

\* the hand list is present and every hand has all 21 landmarks
WellFormed(results) ==
    /\ results.hasList
    /\ \A k \in DOMAIN results.hands :
          /\ CompleteHand(results.hands[k])
          /\ results.hands[k].has4
          /\ results.hands[k].has8

\* the handler of the build that is not running, applied to the same state
OtherBuild(results) ==
    Collect(IF version = "part000"
            THEN handleHandResultsMain(State, results, now)
            ELSE handleHandResults(State, results, now),
            MouseHeld(mouseControls))

\* C33: on a frame with a hand list whose hands are complete, the handler of
\* the running build leaves the registry, the shapes (positions, scales),
\* selectedShape, currentShape, isPinching, shapeCreatedThisPinch,
\* originalDistance and lastShapeCreationTime exactly as the handler of the
\* other build would have left them from the same state; as this holds in
\* every reachable state of either build, the builds agree after every frame
\* of a sequence of such frames.
C33_BuildsAgree ==
    [][(event'.op = "hand" /\ WellFormed(event'.results)) =>
          \E o \in {OtherBuild(event'.results)} :
             /\ shapes' = o.shapes
             /\ objs' = o.objs
             /\ selectedShape' = o.selectedShape
             /\ currentShape' = o.currentShape
             /\ isPinching' = o.isPinching
             /\ shapeCreatedThisPinch' = o.shapeCreatedThisPinch
             /\ originalDistance' = o.originalDistance
             /\ lastShapeCreationTime' = o.lastShapeCreationTime]_vars

\* a frame of two complete hands, one pinching and one open, has been
\* processed and has removed the shape the pinching hand carried
C33_Witness ==
    /\ Processed(event)
    /\ WellFormed(event.results)
    /\ Len(event.results.hands) = 2
    /\ ~BothPinching(event.results)
    /\ removed # {}

\* the shapes selected now: by hand, or by a closure of the mouse controls
\* during a drag
SelectedNow ==
    ({selectedShape} \cup Dragged(mouseControls)) \ {NullShape}

\* C34: while the recycle indicator is active some shape is selected, by hand
\* or by the mouse during a drag, and the place it was last moved to lies in
\* the recycle zone; the indicator is never active while nothing is selected.
C34_IndicatorNeedsSelection ==
    binActive =>
        \E i \in SelectedNow : isInRecycleBinZone(State, objs[i].position)

\* C35: more than 30 submissions to the tracker that fail in a row make the
\* frame callback call enableOfflineMode, and window.frameErrorCount goes back
\* to zero only when a submission has succeeded.
C35_FrameErrorLimit ==
    [][/\ failedInRow' > FrameErrorLimit => offlineControls' > 0
       /\ (frameErrorCount # 0 /\ frameErrorCount' = 0) =>
             event'.op = "sendResolved"]_vars

\* C36: whatever way the initialization goes, the click handlers of the manual
\* controls and the mouse listeners of the canvas are installed at most once.
C36_HandlersInstalledOnce ==
    /\ offlineControls <= 1
    /\ Len(mouseControls) <= 1

\* C37: when the primary model source has failed and the alternate source
\* has been initialized, initMediaPipeHands ends with handsInitialized true,
\* window.hands the fallback instance, and offline mode not entered.
C37_AlternateSourceUsed ==
    event.op = "alternateInitialized" =>
        /\ handsInitialized
        /\ windowHands = "fallback"
        /\ offlineControls = 0

\* C38: a loadedmetadata event that comes after the metadata timeout has
\* rejected the promise of its call of setupCameraStream starts no frame
\* loop, and at most one frame loop is ever started.
C38_TimeoutExcludesLoop ==
    [][/\ (event'.op = "loadedmetadata" /\ streamCall \in timedOut) =>
             frameLoops' = frameLoops
       /\ frameLoops' <= 1]_vars

\* C39: the feedback effect of a creation ends: every animation frame lowers
\* the opacity of each feedback mesh by one step of 0.05 and takes the mesh
\* out of the scene at 0, the opacities stay below the 0.8 of the start, the
\* shape registry is not touched, and the scene is free of feedback meshes
\* again after finitely many frames.
C39_EffectTerminates ==
    /\ [][event'.op = "frame" =>
             /\ effects' = {o - 1 : o \in effects} \ {0}
             /\ effects' \subseteq 1 .. (StartOpacity - 1)
             /\ shapes' = shapes]_vars
    /\ (effects # {}) ~> (effects = {})

\* the last animation frame of a feedback effect has removed its mesh, the
\* shape it was made for is in the registry
C39_Witness ==
    /\ event.op = "frame"
    /\ effects = {}
    /\ ~rafAnimate
    /\ ~rendered
    /\ shapes # <<>>

====
